---- MODULE Spec2Model ----
(***************************************************************************)
(* A model of the conditional-access decoder firmware (src/decoder).       *)
(*                                                                         *)
(* The state is the decoder's RAM (subscription table, curr_time, the      *)
(* DecoderStorage buffer), the reserved flash page, the position of the    *)
(* main loop, and what the device has written to the host for the request  *)
(* in progress.  Pure functions of the source (serialisation, the flash    *)
(* image layout, register_subscription, decode_frame, the chunked payload  *)
(* reader and writer) are operators; the specifications at the end of the  *)
(* module combine them at the granularity their claims need.               *)
(*                                                                         *)
(* Conventions: an Option<T> is a sequence, << >> for None and <<x>> for   *)
(* Some(x).  A byte is a number in 0..255, a 32-bit flash word is the      *)
(* tuple of its four bytes in memory order (from_ne_bytes and to_ne_bytes  *)
(* only reinterpret them), a 128-bit flash block is a tuple of four words. *)
(***************************************************************************)
EXTENDS Integers, Sequences, FiniteSets, TLC

----------------------------------------------------------------------------
(* Program constants *)

MAX_SUBSCRIPTION_COUNT == 8
STORAGE_MAX == 1024
PERSIST_BASE_ADDR == 268713984
DATA_LEN_ADDR == PERSIST_BASE_ADDR + 4
DATA_BASE_ADDR == PERSIST_BASE_ADDR + (16 * 3)
\* 0x4d696b75, in memory order
FLASH_INITIALIZED_MAGIC == <<117, 107, 105, 77>>
CHACHA20_KEY_BYTES == 32
XCHACHA20_NONCE_BYTES == 24
XCHACHA20_TAG_BYTES == 16
ED25519_SIGNATURE_BYTES == 64
ENCODER_CRYPTO_HEADER_LEN ==
    XCHACHA20_NONCE_BYTES + XCHACHA20_TAG_BYTES + ED25519_SIGNATURE_BYTES
SUBSCRIPTION_MESSAGE_SIZE == 4 + 8 + 8 + CHACHA20_KEY_BYTES + ENCODER_CRYPTO_HEADER_LEN
\* u64::MIN and u64::MAX.  TLC's integers stop at 2^31 - 1; timestamps are only
\* compared, never added, so the largest representable value stands for
\* u64::MAX and frames may carry it.
U64_MIN == 0
U64_MAX == 2147483647
\* 2^16, the width of the header's length field
U16_MOD == 65536

----------------------------------------------------------------------------
(* Bounds of the model *)

\* frame timestamps and subscription bounds range over 0..MaxTime and U64_MAX
MaxTime == 3
\* the TRNG yields one of the nonces 1..MaxNonce
MaxNonce == 2
\* channel ids range over 0..MaxChannel in the decode scenarios
MaxChannel == 2

----------------------------------------------------------------------------
(* Options, bytes and words *)

None == << >>
Some(x) == <<x>>
IsSome(o) == o # << >>

Min(a, b) == IF a < b THEN a ELSE b

ERASED_WORD == <<255, 255, 255, 255>>
ERASED_BLOCK == <<ERASED_WORD, ERASED_WORD, ERASED_WORD, ERASED_WORD>>
ZERO_WORD == <<0, 0, 0, 0>>

\* u32::to_le_bytes / to_ne_bytes of a value below 2^31
U32Bytes(n) ==
    <<n % 256, (n \div 256) % 256, (n \div 65536) % 256, (n \div 16777216) % 256>>

\* `length > STORAGE_MAX_U32` on a word read from flash, without forming the
\* 32-bit value (0xFFFFFFFF does not fit TLC's integers)
WordExceedsStorageMax(w) ==
    \/ w[4] # 0
    \/ w[3] # 0
    \/ w[1] + 256 * w[2] > STORAGE_MAX

\* the value of a word known not to exceed STORAGE_MAX
WordValue(w) == w[1] + 256 * w[2]

\* the 32 bytes of the key with number k (build-time and host-chosen keys)
KeyBytes(k) == [i \in 1..CHACHA20_KEY_BYTES |-> (37 * k + i) % 256]

----------------------------------------------------------------------------
(* postcard: the wire format of [Option<Subscription>; 8] *)

\* a subscription record, as decoder.rs declares it
Subscription(c, s, e, k) ==
    [channel_id |-> c, start_time |-> s, end_time |-> e, channel_key |-> k]

\* [None; MAX_SUBSCRIPTION_COUNT], the Default of the table
DefaultSubscriptions == [i \in 1..MAX_SUBSCRIPTION_COUNT |-> None]

\* LEB128, postcard's encoding of u32 and u64
RECURSIVE Varint(_)
Varint(n) ==
    IF n < 128 THEN <<n>> ELSE <<(n % 128) + 128>> \o Varint(n \div 128)

\* Option<Subscription>: tag 0 for None; tag 1, the three varints and the
\* 32 key bytes for Some
SerializeSlot(o) ==
    IF o = None
    THEN <<0>>
    ELSE <<1>> \o Varint(o[1].channel_id) \o Varint(o[1].start_time)
              \o Varint(o[1].end_time) \o o[1].channel_key

RECURSIVE SerializeSlots(_, _)
SerializeSlots(t, i) ==
    IF i > Len(t) THEN << >> ELSE SerializeSlot(t[i]) \o SerializeSlots(t, i + 1)

\* to_extend(&self.subscriptions, buf): a fixed-size array has no length prefix
to_extend(t) == SerializeSlots(t, 1)

\* Reading a varint at position pos.  A varint of more than five bytes, or one
\* whose value leaves 31 bits, is an error here (postcard's limit is the width
\* of the integer type).
RECURSIVE TakeVarint(_, _, _, _)
TakeVarint(b, pos, mult, n) ==
    IF pos > Len(b) \/ n > 5 \/ (n = 5 /\ b[pos] > 7)
    THEN [ok |-> FALSE, val |-> 0, pos |-> pos]
    ELSE IF b[pos] < 128
         THEN [ok |-> TRUE, val |-> b[pos] * mult, pos |-> pos + 1]
         ELSE LET r == TakeVarint(b, pos + 1, mult * 128, n + 1)
              IN  [ok |-> r.ok, val |-> (b[pos] - 128) * mult + r.val, pos |-> r.pos]

TakeSlot(b, pos) ==
    IF pos > Len(b)
    THEN [ok |-> FALSE, val |-> None, pos |-> pos]
    ELSE IF b[pos] = 0
    THEN [ok |-> TRUE, val |-> None, pos |-> pos + 1]
    ELSE IF b[pos] # 1
    THEN [ok |-> FALSE, val |-> None, pos |-> pos]
    ELSE LET c == TakeVarint(b, pos + 1, 1, 1)
             s == TakeVarint(b, c.pos, 1, 1)
             e == TakeVarint(b, s.pos, 1, 1)
             kend == e.pos + CHACHA20_KEY_BYTES - 1
         IN  IF c.ok /\ s.ok /\ e.ok /\ kend <= Len(b)
             THEN [ok |-> TRUE,
                   val |-> Some(Subscription(c.val, s.val, e.val, SubSeq(b, e.pos, kend))),
                   pos |-> kend + 1]
             ELSE [ok |-> FALSE, val |-> None, pos |-> pos]

RECURSIVE TakeSlots(_, _, _)
TakeSlots(b, pos, k) ==
    IF k = 0
    THEN [ok |-> TRUE, val |-> << >>]
    ELSE LET h == TakeSlot(b, pos)
         IN  IF ~h.ok
             THEN [ok |-> FALSE, val |-> << >>]
             ELSE LET r == TakeSlots(b, h.pos, k - 1)
                  IN  [ok |-> r.ok, val |-> <<h.val>> \o r.val]

\* from_bytes::<[Option<Subscription>; 8]>(buf); trailing bytes are ignored
from_bytes(b) == TakeSlots(b, 1, MAX_SUBSCRIPTION_COUNT)

----------------------------------------------------------------------------
(* crypto.rs: XChaCha20-Poly1305 under a key and a 24-byte nonce.  The cipher
   is a keystream added to the bytes; the tag is a 16-byte digest of key,
   nonce and ciphertext, recomputed and compared on decryption. *)

FLASH_KEY == KeyBytes(7)
DECODER_KEY == KeyBytes(6)
CHANNEL_0_KEY == KeyBytes(0)

\* the 24 bytes the TRNG delivers for nonce number n
NonceBytes(n) == [i \in 1..XCHACHA20_NONCE_BYTES |-> (40 * n + i) % 256]

Keystream(key, nonce, i) ==
    (key[((i - 1) % CHACHA20_KEY_BYTES) + 1]
       + 7 * nonce[((i - 1) % XCHACHA20_NONCE_BYTES) + 1] + 3 * i + 1) % 256

ApplyKeystream(key, nonce, data) ==
    [i \in 1..Len(data) |-> (data[i] + Keystream(key, nonce, i)) % 256]

RemoveKeystream(key, nonce, data) ==
    [i \in 1..Len(data) |-> (data[i] + 256 - Keystream(key, nonce, i)) % 256]

\* a position-weighted checksum of bytes[lo..hi], summed by halves
RECURSIVE Digest(_, _, _)
Digest(bytes, lo, hi) ==
    IF lo > hi
    THEN 0
    ELSE IF lo = hi
    THEN ((bytes[lo] + 1) * ((lo % 251) + 1)) % 65521
    ELSE LET mid == (lo + hi) \div 2
         IN  (Digest(bytes, lo, mid) + Digest(bytes, mid + 1, hi)) % 65521

\* the detached tag; never sixteen 0xFF bytes
Mac(key, nonce, ct) ==
    LET input == key \o nonce \o ct
        h == (Digest(input, 1, Len(input)) + Len(ct)) % 65521
    IN  [j \in 1..XCHACHA20_TAG_BYTES |->
            ((IF j % 2 = 0 THEN h \div 256 ELSE h % 256) + j) % 256]

\* encrypt_flash_buffer with the nonce left at its Default (all zero) instead
\* of the TRNG's bytes
encrypt_flash_buffer_default_nonce(buffer, nonce) ==
    LET zero == [i \in 1..XCHACHA20_NONCE_BYTES |-> 0]
        ct == ApplyKeystream(FLASH_KEY, zero, buffer)
    IN  [buf |-> ct, nonce |-> zero, tag |-> Mac(FLASH_KEY, zero, ct)]

\* encrypt_flash_buffer with the nonce the TRNG filled in
encrypt_flash_buffer(buffer, nonce) ==
    LET ct == ApplyKeystream(FLASH_KEY, nonce, buffer)
    IN  [buf |-> ct, nonce |-> nonce, tag |-> Mac(FLASH_KEY, nonce, ct)]

\* decrypt_flash_buffer without the comparison of the tag
decrypt_flash_buffer_unverified(buffer, nonce, tag) ==
    [ok |-> TRUE, buf |-> RemoveKeystream(FLASH_KEY, nonce, buffer)]

\* decrypt_flash_buffer: the buffer is decrypted only when the tag verifies
decrypt_flash_buffer(buffer, nonce, tag) ==
    IF Mac(FLASH_KEY, nonce, buffer) = tag
    THEN [ok |-> TRUE, buf |-> RemoveKeystream(FLASH_KEY, nonce, buffer)]
    ELSE [ok |-> FALSE, buf |-> buffer]

----------------------------------------------------------------------------
(* flash.rs: the reserved page.  The page is a function from the address of
   each 128-bit block that has been written since the last erase to its four
   words; every other block reads as erased.  A write stores the words given
   (the code only ever writes erased words, or rewrites a word's own value). *)

ErasedPage == [a \in {} |-> ERASED_BLOCK]

read_128(fl, addr) == IF addr \in DOMAIN fl THEN fl[addr] ELSE ERASED_BLOCK

read_32(fl, addr) == read_128(fl, addr - (addr % 16))[((addr % 16) \div 4) + 1]

write_128(fl, addr, words) == (addr :> words) @@ fl

\* the controller writes whole blocks: a word write rewrites its block
write_32(fl, addr, word) ==
    LET base == addr - (addr % 16)
    IN  write_128(fl, base, [read_128(fl, base) EXCEPT ![((addr % 16) \div 4) + 1] = word])

\* reset_storage: erase, then the magic with a zero length
reset_storage(fl) ==
    write_128(ErasedPage, PERSIST_BASE_ADDR,
              <<FLASH_INITIALIZED_MAGIC, ZERO_WORD, ERASED_WORD, ERASED_WORD>>)

\* the loop of fill_buffer: whole words while four or more bytes are left, then
\* the first bytes_left bytes of one more word.  Byte i of the buffer is byte
\* (i - 1) % 4 of the word read at cursor DATA_BASE_ADDR + 4 * ((i - 1) / 4).
FillLoop(fl, length) ==
    << >> \o [i \in 1..length |->
                 read_32(fl, DATA_BASE_ADDR + 4 * ((i - 1) \div 4))[((i - 1) % 4) + 1]]

\* the nonce and the tag, gathered from the three header blocks
StoredNonce(fl) ==
    LET header_block == read_128(fl, PERSIST_BASE_ADDR)
        nonce_block == read_128(fl, PERSIST_BASE_ADDR + 16)
    IN  header_block[3] \o header_block[4]
          \o nonce_block[1] \o nonce_block[2] \o nonce_block[3] \o nonce_block[4]

StoredTag(fl) ==
    LET tag_block == read_128(fl, PERSIST_BASE_ADDR + 32)
    IN  tag_block[1] \o tag_block[2] \o tag_block[3] \o tag_block[4]

\* fill_buffer: err is FlashLengthTooLarge; a failed decryption leaves the
\* buffer zeroized and cleared, and is not an error
fill_buffer(fl) ==
    LET length == read_32(fl, DATA_LEN_ADDR)
    IN  IF WordExceedsStorageMax(length)
        THEN [err |-> TRUE, buf |-> << >>]
        ELSE LET data == FillLoop(fl, WordValue(length))
                 d == decrypt_flash_buffer(data, StoredNonce(fl), StoredTag(fl))
             IN  [err |-> FALSE, buf |-> IF d.ok THEN d.buf ELSE << >>]

\* DecoderStorage::init: the page and the buffer it leaves, or an error
init(fl) ==
    IF read_32(fl, PERSIST_BASE_ADDR) # FLASH_INITIALIZED_MAGIC
    THEN [err |-> FALSE, flash |-> reset_storage(fl), buf |-> << >>]
    ELSE LET f == fill_buffer(fl)
         IN  [err |-> f.err, flash |-> fl, buf |-> f.buf]

(* flush_buffer, write by write *)

\* the first block with the magic word already in word 0
HeaderBlockWithMagic(len, nonce) ==
    <<FLASH_INITIALIZED_MAGIC, U32Bytes(len), SubSeq(nonce, 1, 4), SubSeq(nonce, 5, 8)>>

\* the first block: word 0 is left erased, then the length and nonce[0..8]
HeaderBlock(len, nonce) ==
    <<ERASED_WORD, U32Bytes(len), SubSeq(nonce, 1, 4), SubSeq(nonce, 5, 8)>>

NonceBlock(nonce) ==
    <<SubSeq(nonce, 9, 12), SubSeq(nonce, 13, 16), SubSeq(nonce, 17, 20),
      SubSeq(nonce, 21, 24)>>

TagBlock(tag) ==
    <<SubSeq(tag, 1, 4), SubSeq(tag, 5, 8), SubSeq(tag, 9, 12), SubSeq(tag, 13, 16)>>

\* the locals of the data loop before its first iteration
DataLoopStart(fl) ==
    [fl |-> fl, u32s_to_write |-> <<ZERO_WORD, ZERO_WORD, ZERO_WORD, ZERO_WORD>>,
     cursor |-> DATA_BASE_ADDR, i |-> 0, chunk |-> 0]

\* the number of whole 4-byte chunks of the buffer
ChunkCount(buf) == Len(buf) \div 4

\* one iteration of `for chunk in chunks`: the chunk goes to u32s_to_write[i];
\* the fourth one writes the block and moves the cursor
DataLoopStep(buf, st) ==
    LET u == [st.u32s_to_write EXCEPT
                 ![st.i + 1] = SubSeq(buf, 4 * st.chunk + 1, 4 * st.chunk + 4)]
    IN  IF st.i + 1 = 4
        THEN [fl |-> write_128(st.fl, st.cursor, u), u32s_to_write |-> u,
              cursor |-> st.cursor + 4 * 4, i |-> 0, chunk |-> st.chunk + 1]
        ELSE [fl |-> st.fl, u32s_to_write |-> u,
              cursor |-> st.cursor, i |-> st.i + 1, chunk |-> st.chunk + 1]

RECURSIVE DataLoop(_, _)
DataLoop(buf, st) ==
    IF st.chunk >= ChunkCount(buf) THEN st ELSE DataLoop(buf, DataLoopStep(buf, st))

\* flush_buffer without the write after the loop
FinalWriteSkipped(buf, st) == st.fl

\* after the loop: the remainder, padded with 0xFF, goes to u32s_to_write[i]
\* and the block is written, whatever the other words still hold
FinalWrite(buf, st) ==
    LET remainder == SubSeq(buf, 4 * ChunkCount(buf) + 1, Len(buf))
        final_u32 == [k \in 1..4 |-> IF k <= Len(remainder) THEN remainder[k] ELSE 255]
    IN  write_128(st.fl, st.cursor, [st.u32s_to_write EXCEPT ![st.i + 1] = final_u32])

\* flush_buffer without its last write
WriteNoMagic(fl) == fl

WriteMagic(fl) == write_32(fl, PERSIST_BASE_ADDR, FLASH_INITIALIZED_MAGIC)

\* flush_buffer as a whole, with the nonce the TRNG delivers: the page it leaves
flush_buffer(buf, nonce) ==
    LET e == encrypt_flash_buffer(buf, nonce)
        f1 == write_128(ErasedPage, PERSIST_BASE_ADDR, HeaderBlock(Len(e.buf), e.nonce))
        f2 == write_128(f1, PERSIST_BASE_ADDR + 16, NonceBlock(e.nonce))
        f3 == write_128(f2, PERSIST_BASE_ADDR + 32, TagBlock(e.tag))
        st == DataLoop(e.buf, DataLoopStart(f3))
    IN  WriteMagic(FinalWrite(e.buf, st))

----------------------------------------------------------------------------
(* decoder.rs *)

MinOf(S) == CHOOSE x \in S : \A y \in S : x <= y

\* Decoder::new: the table read from the storage buffer, or the default
DecoderNew(buf) ==
    LET r == from_bytes(buf)
    IN  IF r.ok THEN r.val ELSE DefaultSubscriptions

\* the slots holding a subscription for channel_id
SlotsOf(t, channel_id) ==
    {i \in 1..Len(t) : t[i] # None /\ t[i][1].channel_id = channel_id}

EmptySlots(t) == {i \in 1..Len(t) : t[i] = None}

\* get_subscription: the first slot that holds channel_id
get_subscription(t, channel_id) ==
    IF SlotsOf(t, channel_id) = {} THEN None ELSE t[MinOf(SlotsOf(t, channel_id))]

\* register_subscription with its second search from the end: a new channel
\* goes to the last empty slot
register_subscription_last_free(t, new_sub) ==
    IF SlotsOf(t, new_sub.channel_id) # {}
    THEN [err |-> "Ok",
          subscriptions |-> [t EXCEPT ![MinOf(SlotsOf(t, new_sub.channel_id))] = Some(new_sub)]]
    ELSE IF EmptySlots(t) # {}
    THEN [err |-> "Ok",
          subscriptions |->
              [t EXCEPT ![CHOOSE i \in EmptySlots(t) : \A j \in EmptySlots(t) : j <= i] =
                            Some(new_sub)]]
    ELSE [err |-> "NoMoreSubscriptionSpace", subscriptions |-> t]

\* register_subscription with its two searches in the other order: a free
\* slot is taken when there is one, a stored entry replaced only when full
register_subscription_free_first(t, new_sub) ==
    IF EmptySlots(t) # {}
    THEN [err |-> "Ok",
          subscriptions |-> [t EXCEPT ![MinOf(EmptySlots(t))] = Some(new_sub)]]
    ELSE IF SlotsOf(t, new_sub.channel_id) # {}
    THEN [err |-> "Ok",
          subscriptions |-> [t EXCEPT ![MinOf(SlotsOf(t, new_sub.channel_id))] = Some(new_sub)]]
    ELSE [err |-> "NoMoreSubscriptionSpace", subscriptions |-> t]

\* register_subscription without its first loop: every subscription goes to
\* the first empty slot
register_subscription_appending(t, new_sub) ==
    IF EmptySlots(t) # {}
    THEN [err |-> "Ok",
          subscriptions |-> [t EXCEPT ![MinOf(EmptySlots(t))] = Some(new_sub)]]
    ELSE [err |-> "NoMoreSubscriptionSpace", subscriptions |-> t]

\* register_subscription up to its call of flush_subscriptions: the table it
\* leaves, or NoMoreSubscriptionSpace
register_subscription(t, new_sub) ==
    IF SlotsOf(t, new_sub.channel_id) # {}
    THEN [err |-> "Ok",
          subscriptions |-> [t EXCEPT ![MinOf(SlotsOf(t, new_sub.channel_id))] = Some(new_sub)]]
    ELSE IF EmptySlots(t) # {}
    THEN [err |-> "Ok",
          subscriptions |-> [t EXCEPT ![MinOf(EmptySlots(t))] = Some(new_sub)]]
    ELSE [err |-> "NoMoreSubscriptionSpace", subscriptions |-> t]

(* A packet from the encoder, as the decoder can tell it apart: the key its
   AEAD tag was made with, whether nonce, tag and ciphertext arrive as they
   were made, whether the signature verifies over the plaintext, and the
   plaintext (a timestamp and a frame for 'D', a subscription for 'S'). *)

\* decrypt_encrypted_packet with the result of the AEAD decryption dropped
decrypt_unauthenticated_packet(key, pkt) == pkt.signed

\* decrypt_encrypted_packet without the signature check
decrypt_unverified_packet(key, pkt) == pkt.intact /\ pkt.key = key

\* crypto.rs decrypt_encrypted_packet: AEAD first, then the signature
decrypt_encrypted_packet(key, pkt) ==
    IF ~(pkt.intact /\ pkt.key = key) THEN FALSE ELSE pkt.signed

decrypt_decoder_encrypted_packet(pkt) == decrypt_encrypted_packet(DECODER_KEY, pkt)

\* the window and key without the channel-0 branch: the table is consulted
\* for every channel
ChannelAccessByTable(t, channel_id) ==
    LET sub == get_subscription(t, channel_id)
    IN  IF sub = None
        THEN None
        ELSE Some([start_time |-> sub[1].start_time, end_time |-> sub[1].end_time,
                   channel_key |-> sub[1].channel_key])

\* the window and key decode_frame uses for channel_id: None without a subscription
ChannelAccess(t, channel_id) ==
    IF channel_id = 0
    THEN Some([start_time |-> U64_MIN, end_time |-> U64_MAX, channel_key |-> CHANNEL_0_KEY])
    ELSE LET sub == get_subscription(t, channel_id)
         IN  IF sub = None
             THEN None
             ELSE Some([start_time |-> sub[1].start_time, end_time |-> sub[1].end_time,
                        channel_key |-> sub[1].channel_key])

\* the window check with both bounds excluded
OutsideOpenWindow(timestamp, start_time, end_time) ==
    timestamp <= start_time \/ timestamp >= end_time

OutsideWindow(timestamp, start_time, end_time) ==
    timestamp < start_time \/ timestamp > end_time

\* the order check letting a frame one tick older through
OutOfOrderByTwo(ct, timestamp) == ct # None /\ ct[1] - 1 > timestamp

OutOfOrder(ct, timestamp) == ct # None /\ ct[1] > timestamp

\* decode_frame without `self.curr_time.set(Some(timestamp))`
decode_frame_time_kept(t, ct, channel_id, pkt) ==
    LET acc == ChannelAccess(t, channel_id)
        fail(e) == [err |-> e, curr_time |-> ct, frame |-> << >>]
    IN  IF acc = None
        THEN fail("NoSubscription")
        ELSE IF ~decrypt_encrypted_packet(acc[1].channel_key, pkt)
        THEN fail("FailedDecryption")
        ELSE IF OutsideWindow(pkt.timestamp, acc[1].start_time, acc[1].end_time)
        THEN fail("SubscriptionTimeMismatch")
        ELSE IF OutOfOrder(ct, pkt.timestamp)
        THEN fail("FrameOutOfOrder")
        ELSE [err |-> "Ok", curr_time |-> ct, frame |-> pkt.frame]

\* decode_frame with its last two checks in the other order: the order check
\* comes before the window check
decode_frame_order_before_window(t, ct, channel_id, pkt) ==
    LET acc == ChannelAccess(t, channel_id)
        fail(e) == [err |-> e, curr_time |-> ct, frame |-> << >>]
    IN  IF acc = None
        THEN fail("NoSubscription")
        ELSE IF ~decrypt_encrypted_packet(acc[1].channel_key, pkt)
        THEN fail("FailedDecryption")
        ELSE IF OutOfOrder(ct, pkt.timestamp)
        THEN fail("FrameOutOfOrder")
        ELSE IF OutsideWindow(pkt.timestamp, acc[1].start_time, acc[1].end_time)
        THEN fail("SubscriptionTimeMismatch")
        ELSE [err |-> "Ok", curr_time |-> Some(pkt.timestamp), frame |-> pkt.frame]

\* Decoder::decode_frame: the error or "Ok", curr_time afterwards, and the frame
decode_frame(t, ct, channel_id, pkt) ==
    LET acc == ChannelAccess(t, channel_id)
        fail(e) == [err |-> e, curr_time |-> ct, frame |-> << >>]
    IN  IF acc = None
        THEN fail("NoSubscription")
        ELSE IF ~decrypt_encrypted_packet(acc[1].channel_key, pkt)
        THEN fail("FailedDecryption")
        ELSE IF OutsideWindow(pkt.timestamp, acc[1].start_time, acc[1].end_time)
        THEN fail("SubscriptionTimeMismatch")
        ELSE IF OutOfOrder(ct, pkt.timestamp)
        THEN fail("FrameOutOfOrder")
        ELSE [err |-> "Ok", curr_time |-> Some(pkt.timestamp), frame |-> pkt.frame]

----------------------------------------------------------------------------
(* host_comms.rs: what the device writes.  The log `out` of a request holds
   one entry per ACK, per packet header and per run of payload bytes the
   device has written.  The host's answers to the device's read_ack calls are
   a sequence of booleans (TRUE: an ACK packet; FALSE: '%' and another byte),
   consumed in order; once it is used up the host ACKs. *)

Ack == [t |-> "A", len |-> 0, data |-> << >>]
Header(t, len) == [t |-> t, len |-> len, data |-> << >>]
Payload(len, data) == [t |-> "payload", len |-> len, data |-> data]

\* read_ack taking every answer of the host for an ACK
AckReadAny(acks) == TRUE

\* read_ack against the host's answers
AckRead(acks) == IF acks = << >> THEN TRUE ELSE Head(acks)
AckRest(acks) == IF acks = << >> THEN << >> ELSE Tail(acks)

\* the test on the count after the current byte: an ACK at the end of a chunk
AckDueAtChunkEnd(count) == count % 256 = 255

\* `count % 256 == 0 && count != 0`, the test of write_byte and of read_byte
\* on the bytes counted before the current one
AckDue(count) == count % 256 = 0 /\ count # 0

\* u64::to_le_bytes
U64Bytes(v) ==
    IF v = U64_MAX
    THEN <<255, 255, 255, 255, 255, 255, 255, 255>>
    ELSE U32Bytes(v) \o <<0, 0, 0, 0>>

\* DecoderError::message, as the kind and its length in bytes
MESSAGE_LEN ==
    [ExpectedAckButGotOther |-> 36, NoMoreSubscriptionSpace |-> 63,
     FrameTooLarge |-> 57, NoSubscription |-> 72, SubscriptionTimeMismatch |-> 78,
     SerializationFailed |-> 50, SavingFailed |-> 37, FailedDecryption |-> 159,
     FrameOutOfOrder |-> 54, PacketWrongSize |-> 93, InvalidCommand |-> 58]

Message(err) == [text |-> err, arg |-> << >>, len |-> MESSAGE_LEN[err]]

\* the number of decimal digits `{}` prints for n < 100000
Digits(n) ==
    IF n < 10 THEN 1 ELSE IF n < 100 THEN 2 ELSE IF n < 1000 THEN 3
    ELSE IF n < 10000 THEN 4 ELSE 5

\* the strings cmd_logic.rs formats: the text with its argument
ListBodyMessage(size) ==
    [text |-> "List message packet should not have a body, but had a body of {} bytes",
     arg |-> <<size>>, len |-> 68 + Digits(size)]
SubscribeSizeMessage(size) ==
    [text |-> "Subscription message should have a size of {}, was {}",
     arg |-> <<SUBSCRIPTION_MESSAGE_SIZE, size>>,
     len |-> 49 + Digits(SUBSCRIPTION_MESSAGE_SIZE) + Digits(size)]
CommandMessage(cmd) ==
    [text |-> "Expected a L, S, or D command, got byte {}",
     arg |-> <<cmd>>, len |-> 40 + Digits(cmd)]

\* DecoderPayloadWriter: n bytes `data` written from count `from` on, then
\* finish_payload.  write_byte writes its byte and then, when the count before
\* it was a non-zero multiple of 256, reads an ACK.
RECURSIVE WriterSend(_, _, _, _, _)
WriterSend(n, data, from, acks, log) ==
    LET due == {c \in from..(n - 1) : AckDue(c)}
    IN  IF due = {}
        THEN \* the rest goes out, then finish_payload reads the last ACK
             [out |-> IF from < n THEN Append(log, Payload(n - from, data)) ELSE log,
              ok |-> AckRead(acks), acks |-> AckRest(acks)]
        ELSE LET c == MinOf(due)
                 log1 == Append(log, Payload(c + 1 - from, data))
             IN  IF AckRead(acks)
                 THEN WriterSend(n, data, c + 1, AckRest(acks), log1)
                 ELSE [out |-> log1, ok |-> FALSE, acks |-> AckRest(acks)]

\* print_debug: a 'G' header and the bytes, no ACK
print_debug(msg, log) == log \o <<Header("G", msg.len), Payload(msg.len, msg)>>

\* print_error: the 'E' header, an ACK, the message through the payload writer
print_error(msg, acks, log) ==
    LET log1 == Append(log, Header("E", msg.len))
    IN  IF ~AckRead(acks)
        THEN [out |-> log1, ok |-> FALSE, acks |-> AckRest(acks)]
        ELSE WriterSend(msg.len, msg, 0, AckRest(acks), log1)

\* DecoderError::write_to_console: the message as debug, then as error
write_to_console(err, acks, log) ==
    print_error(Message(err), acks, print_debug(Message(err), log))

\* the ACKs DecoderPayloadReader writes while n bytes are read and at
\* finish_payload
ReaderAcks(n) ==
    [k \in 1..(Cardinality({c \in 0..(n - 1) : AckDue(c)}) + 1) |-> Ack]

\* the entries of send_list with the channel_key written after end_time
RECURSIVE ListBytesWithKey(_, _)
ListBytesWithKey(t, i) ==
    IF i > Len(t)
    THEN << >>
    ELSE (IF t[i] = None
          THEN << >>
          ELSE U32Bytes(t[i][1].channel_id) \o U64Bytes(t[i][1].start_time)
                 \o U64Bytes(t[i][1].end_time) \o t[i][1].channel_key)
         \o ListBytesWithKey(t, i + 1)

\* the (channel_id, start_time, end_time) bytes of the occupied slots, in order
RECURSIVE ListBytes(_, _)
ListBytes(t, i) ==
    IF i > Len(t)
    THEN << >>
    ELSE (IF t[i] = None
          THEN << >>
          ELSE U32Bytes(t[i][1].channel_id) \o U64Bytes(t[i][1].start_time)
                 \o U64Bytes(t[i][1].end_time))
         \o ListBytes(t, i + 1)

SubCount(t) == Cardinality({i \in 1..Len(t) : t[i] # None})

\* send_list
send_list(t, acks, log) ==
    LET sub_count == SubCount(t)
        payload_len == (sub_count * (4 + 8 + 8)) % U16_MOD
        log1 == Append(log, Header("L", (payload_len + 4) % U16_MOD))
    IN  IF ~AckRead(acks)
        THEN [out |-> log1, ok |-> FALSE, acks |-> AckRest(acks)]
        ELSE WriterSend(Len(ListBytes(t, 1)), ListBytes(t, 1), 0, AckRest(acks),
                        Append(log1, Payload(4, U32Bytes(sub_count))))

\* send_empty_payload that writes no header before it reads the ACK
send_empty_payload_unheaded(msg_type, acks, log) ==
    [out |-> log, ok |-> AckRead(acks), acks |-> AckRest(acks)]

\* send_empty_payload
send_empty_payload(msg_type, acks, log) ==
    [out |-> Append(log, Header(msg_type, 0)), ok |-> AckRead(acks), acks |-> AckRest(acks)]

----------------------------------------------------------------------------
(* cmd_logic.rs and main.rs: one request *)

\* the loop of main: an Err from run_command goes to write_to_console, whose
\* own result is dropped
Report(err, acks, log) ==
    IF err = "Ok" THEN log ELSE write_to_console(err, acks, log).out

\* what a finished request leaves: the decoder's RAM, the page, the log and
\* the outcome ("Ok", a DecoderError, or the name of a message run_command
\* formats itself)
Effect(t, ct, bf, fl, log, outcome) ==
    [subscriptions |-> t, curr_time |-> ct, buf |-> bf, flash |-> fl,
     out |-> log, outcome |-> outcome]

\* read_command_header returned Err(cmd): run_command prints and returns Ok
InvalidCommand(t, ct, bf, fl, cmd, acks, log) ==
    Effect(t, ct, bf, fl, print_error(CommandMessage(cmd), acks, log).out, "UnknownCommand")

\* the List arm
ListCommand(t, ct, bf, fl, size, acks, log) ==
    IF size # 0
    THEN Effect(t, ct, bf, fl, print_error(ListBodyMessage(size), acks, log).out,
                "ListHasBody")
    ELSE LET r == send_list(t, acks, Append(log, Ack))
             err == IF r.ok THEN "Ok" ELSE "ExpectedAckButGotOther"
         IN  Effect(t, ct, bf, fl, Report(err, r.acks, r.out), err)

\* `packet_length - 4 - 8 - ENCODER_CRYPTO_HEADER_LEN` in u16, wrapping
FrameLength(packet_length) ==
    (packet_length + U16_MOD - (4 + 8 + ENCODER_CRYPTO_HEADER_LEN)) % U16_MOD

\* the subtraction overflows: a build with overflow checks panics there
FrameLengthOverflows(packet_length) == packet_length < 4 + 8 + ENCODER_CRYPTO_HEADER_LEN

\* the Decode arm: write_ack, then DecoderConsole::decode_frame
DecodeCommand(t, ct, bf, fl, size, pkt, acks, log) ==
    LET frame_length == FrameLength(size)
        log1 == Append(log, Ack)
    IN  IF frame_length > 64
        THEN Effect(t, ct, bf, fl, Report("FrameTooLarge", acks, log1), "FrameTooLarge")
        ELSE LET log2 == log1 \o ReaderAcks(size)
                 d == decode_frame(t, ct, pkt.channel_id, pkt)
             IN  IF d.err # "Ok"
                 THEN Effect(t, ct, bf, fl, Report(d.err, acks, log2), d.err)
                 ELSE LET log3 == Append(log2, Header("D", frame_length))
                          r == IF ~AckRead(acks)
                               THEN [out |-> log3, ok |-> FALSE, acks |-> AckRest(acks)]
                               ELSE WriterSend(Len(d.frame), d.frame, 0, AckRest(acks), log3)
                          err == IF r.ok THEN "Ok" ELSE "ExpectedAckButGotOther"
                      IN  Effect(t, d.curr_time, bf, fl, Report(err, r.acks, r.out), err)

\* the Subscribe arm without its length check: the body is read whatever the
\* header declared
SubscribeHeadAnySize(t, ct, bf, fl, size, pkt, acks, log) ==
    LET log1 == Append(log, Ack) \o ReaderAcks(SUBSCRIPTION_MESSAGE_SIZE)
    IN  IF ~decrypt_decoder_encrypted_packet(pkt)
        THEN [done |-> TRUE,
              eff |-> Effect(t, ct, bf, fl, Report("FailedDecryption", acks, log1),
                             "FailedDecryption")]
        ELSE LET r == register_subscription(t, pkt.sub[1])
             IN  IF r.err # "Ok"
                 THEN [done |-> TRUE,
                       eff |-> Effect(t, ct, bf, fl, Report(r.err, acks, log1), r.err)]
                 ELSE [done |-> FALSE,
                       eff |-> Effect(r.subscriptions, ct, to_extend(r.subscriptions),
                                      fl, log1, "Ok")]

\* the Subscribe arm up to flush_buffer: either the request is over (done) or
\* the table is changed and serialised into the storage buffer
SubscribeHead(t, ct, bf, fl, size, pkt, acks, log) ==
    IF size # SUBSCRIPTION_MESSAGE_SIZE
    THEN [done |-> TRUE,
          eff |-> Effect(t, ct, bf, fl,
                         print_error(SubscribeSizeMessage(size), acks, log).out,
                         "SubscribeWrongSize")]
    ELSE LET log1 == Append(log, Ack) \o ReaderAcks(SUBSCRIPTION_MESSAGE_SIZE)
         IN  IF ~decrypt_decoder_encrypted_packet(pkt)
             THEN [done |-> TRUE,
                   eff |-> Effect(t, ct, bf, fl, Report("FailedDecryption", acks, log1),
                                  "FailedDecryption")]
             ELSE LET r == register_subscription(t, pkt.sub[1])
                  IN  IF r.err # "Ok"
                      THEN [done |-> TRUE,
                            eff |-> Effect(t, ct, bf, fl, Report(r.err, acks, log1), r.err)]
                      ELSE [done |-> FALSE,
                            eff |-> Effect(r.subscriptions, ct, to_extend(r.subscriptions),
                                           fl, log1, "Ok")]

\* the Subscribe arm after flush_buffer returned Ok: the 'S' response
SubscribeTail(t, ct, fl, acks, log) ==
    LET r == send_empty_payload("S", acks, log)
        err == IF r.ok THEN "Ok" ELSE "ExpectedAckButGotOther"
    IN  Effect(t, ct, << >>, fl, Report(err, r.acks, r.out), err)

\* the Subscribe arm as a whole, with the nonce the TRNG delivers
SubscribeCommand(t, ct, bf, fl, size, pkt, nonce, acks, log) ==
    LET h == SubscribeHead(t, ct, bf, fl, size, pkt, acks, log)
    IN  IF h.done
        THEN h.eff
        ELSE SubscribeTail(h.eff.subscriptions, ct, flush_buffer(h.eff.buf, nonce),
                           acks, h.eff.out)

----------------------------------------------------------------------------
(* The state *)

VARIABLES
    pc,             \* "off", "idle" (in read_command_header), "cmd" (header
                    \* read), "halted" (panic), or a step of flush_buffer
    subscriptions,  \* Decoder.subscriptions
    curr_time,      \* Decoder.curr_time
    buf,            \* DecoderStorage.buf
    flash,          \* the reserved page
    hdr,            \* the header read_command_header returned
    out,            \* what the device has written for the request in progress
    req,            \* history: the body and the host's answers of the request
    res,            \* history: the outcome of the last finished request
    max_decoded,    \* history: the highest timestamp decoded since boot
    fls,            \* the locals of flush_buffer while it runs step by step
    acked,          \* history: the subscription of the last 'S' response
    reflushed,      \* history: flush_buffer has begun again since that response
    stored,         \* history: the table of the last flush_buffer that wrote
                    \* its magic word, the empty one since the page was erased
    ticks,          \* timer.rs TICKS
    hdr_tick,       \* history: TICKS when the header of the request in progress
                    \* was read
    took,           \* history: the ticks from the header of the last finished
                    \* request to the last byte written for it
    pw,             \* a DecoderPayloadWriter or DecoderPayloadReader at work
    clk,            \* the TMR0 counter and the DecoderClock with its transaction
    trng,           \* history: the 24-byte outputs the TRNG has delivered to
                    \* encrypt_flash_buffer, where a run records them
    link            \* the UART with a host at its other end, where a run has
                    \* one: the packets in flight each way, how far the
                    \* handler has come, and where the host stands

vars == <<pc, subscriptions, curr_time, buf, flash, hdr, out, req, res,
          max_decoded, fls, acked, reflushed, stored, ticks, hdr_tick, took, pw,
          clk, trng, link>>

Packet(key, intact, signed, channel_id, timestamp, frame, sub) ==
    [key |-> key, intact |-> intact, signed |-> signed, channel_id |-> channel_id,
     timestamp |-> timestamp, frame |-> frame, sub |-> sub]

NoPacket == Packet(<< >>, FALSE, FALSE, 0, 0, << >>, None)
NoHeader == [cmd |-> "", byte |-> 0, size |-> 0]
NoRequest == [cmd |-> "", size |-> 0, pkt |-> NoPacket, acks |-> << >>]
NoFlush == [active |-> FALSE]
NoTransfer == [dir |-> "none"]
\* the timer's counter at 0, no transaction started
\* no host modelled at the other end of the UART
NoLink == [to_dev |-> << >>]

NoClock == [count |-> 0, transaction_time |-> None, at |-> "idle", started |-> 0,
            returned |-> 0]

\* power is off; the page is as a new device has it
Init ==
    /\ pc = "off"
    /\ subscriptions = DefaultSubscriptions
    /\ curr_time = None
    /\ buf = << >>
    /\ flash = ErasedPage
    /\ hdr = NoHeader
    /\ out = << >>
    /\ req = NoRequest
    /\ res = ""
    /\ max_decoded = None
    /\ fls = NoFlush
    /\ acked = None
    /\ reflushed = FALSE
    /\ stored = DefaultSubscriptions
    /\ ticks = 0
    /\ hdr_tick = 0
    /\ took = 0
    /\ pw = NoTransfer
    /\ clk = NoClock
    /\ trng = << >>
    /\ link = NoLink

\* main up to the loop: DecoderStorage::init(..).unwrap() and Decoder::new
Boot ==
    /\ pc = "off"
    /\ LET r == init(flash)
       IN  IF r.err
           THEN /\ pc' = "halted"
                /\ UNCHANGED <<subscriptions, buf, flash>>
           ELSE /\ pc' = "idle"
                /\ subscriptions' = DecoderNew(r.buf)
                /\ buf' = r.buf
                /\ flash' = r.flash
    /\ curr_time' = None
    /\ UNCHANGED <<hdr, out, req, res, max_decoded, fls, acked, reflushed, stored,
                   ticks, hdr_tick, took, pw, clk, trng, link>>

\* power is cut: RAM is lost, the page stays
PowerLossWith(fl) ==
    /\ pc # "off"
    /\ pc' = "off"
    /\ subscriptions' = DefaultSubscriptions
    /\ curr_time' = None
    /\ buf' = << >>
    /\ hdr' = NoHeader
    /\ out' = << >>
    /\ req' = NoRequest
    /\ res' = ""
    /\ max_decoded' = None
    /\ fls' = NoFlush
    /\ ticks' = 0
    /\ hdr_tick' = 0
    /\ took' = 0
    /\ pw' = NoTransfer
    /\ clk' = NoClock
    /\ flash' = fl
    /\ UNCHANGED <<acked, reflushed, stored, trng, link>>

PowerLoss == PowerLossWith(flash)

\* power is cut while the device waits for a header or for a request's body,
\* or after a panic
PowerCycle == pc \in {"idle", "cmd", "halted"} /\ PowerLoss

\* read_command_header: the host sends '%', a command byte and, for L, S and D,
\* a length, which the device ACKs
ReadCommandHeader(Headers) ==
    /\ pc = "idle"
    /\ \E h \in Headers :
         /\ hdr' = h
         /\ out' = IF h.cmd \in {"L", "S", "D"} THEN <<Ack>> ELSE << >>
    /\ pc' = "cmd"
    /\ req' = NoRequest
    /\ res' = ""
    /\ hdr_tick' = ticks
    /\ took' = 0
    /\ UNCHANGED <<subscriptions, curr_time, buf, flash, max_decoded, fls, acked,
                   reflushed, stored, ticks, pw, clk, trng, link>>

\* a request ends: the effect e of its handler, and back to the top of the loop
Finish(e, r) ==
    /\ pc' = "idle"
    /\ subscriptions' = e.subscriptions
    /\ curr_time' = e.curr_time
    /\ buf' = e.buf
    /\ flash' = e.flash
    /\ out' = e.out
    /\ res' = e.outcome
    /\ req' = r
    /\ took' = ticks - hdr_tick
    /\ hdr_tick' = 0
    /\ fls' = NoFlush
    /\ UNCHANGED <<hdr, ticks, pw, clk, trng, link>>

Request(pkt, acks) == [cmd |-> hdr.cmd, size |-> hdr.size, pkt |-> pkt, acks |-> acks]

InvalidCmd(AckSets) ==
    /\ pc = "cmd"
    /\ hdr.cmd \notin {"L", "S", "D"}
    /\ \E acks \in AckSets :
         Finish(InvalidCommand(subscriptions, curr_time, buf, flash, hdr.byte, acks, out),
                Request(NoPacket, acks))
    /\ UNCHANGED <<max_decoded, acked, reflushed, stored>>

ListCmd(AckSets) ==
    /\ pc = "cmd"
    /\ hdr.cmd = "L"
    /\ \E acks \in AckSets :
         Finish(ListCommand(subscriptions, curr_time, buf, flash, hdr.size, acks, out),
                Request(NoPacket, acks))
    /\ UNCHANGED <<max_decoded, acked, reflushed, stored>>

\* the frame's bytes are the host's; one frame per length is enough
FrameBytes(len) == [i \in 1..len |-> (17 * i) % 256]

HasHeader(log, t) == \E i \in 1..Len(log) : log[i].t = t

\* the highest of the timestamps decoded so far and one more
HigherOf(m, timestamp) ==
    IF m = None \/ m[1] < timestamp THEN Some(timestamp) ELSE m

DecodeCmd(Packets, AckSets) ==
    /\ pc = "cmd"
    /\ hdr.cmd = "D"
    /\ \E p \in Packets, acks \in AckSets :
         LET pkt == IF FrameLength(hdr.size) > 64
                    THEN NoPacket
                    ELSE [p EXCEPT !.frame = FrameBytes(FrameLength(hdr.size))]
             e == DecodeCommand(subscriptions, curr_time, buf, flash, hdr.size, pkt,
                                acks, out)
         IN  /\ Finish(e, Request(pkt, acks))
             /\ max_decoded' = IF HasHeader(e.out, "D")
                               THEN HigherOf(max_decoded, pkt.timestamp)
                               ELSE max_decoded
    /\ UNCHANGED <<acked, reflushed, stored>>

\* a build with overflow checks: the length subtraction panics (panic_halt)
DecodePanic ==
    /\ pc = "cmd"
    /\ hdr.cmd = "D"
    /\ FrameLengthOverflows(hdr.size)
    /\ pc' = "halted"
    /\ out' = Append(out, Ack)
    /\ UNCHANGED <<subscriptions, curr_time, buf, flash, hdr, req, res, max_decoded,
                   fls, acked, reflushed, stored, ticks, hdr_tick, took, pw, clk, trng, link>>

\* a Subscribe request, flush_buffer included, in one step
SubscribeCmd(Packets, Nonces, AckSets) ==
    /\ pc = "cmd"
    /\ hdr.cmd = "S"
    /\ \E p \in Packets, n \in Nonces, acks \in AckSets :
         LET pkt == IF hdr.size # SUBSCRIPTION_MESSAGE_SIZE THEN NoPacket ELSE p
             e == SubscribeCommand(subscriptions, curr_time, buf, flash, hdr.size, pkt,
                                   NonceBytes(n), acks, out)
             flushed == ~SubscribeHead(subscriptions, curr_time, buf, flash, hdr.size,
                                       pkt, acks, out).done
         IN  /\ Finish(e, Request(pkt, acks))
             /\ acked' = IF HasHeader(e.out, "S") THEN pkt.sub ELSE acked
             /\ reflushed' = IF HasHeader(e.out, "S") THEN FALSE
                             ELSE (reflushed \/ flushed)
             /\ stored' = IF flushed THEN e.subscriptions ELSE stored
    /\ UNCHANGED max_decoded

----------------------------------------------------------------------------
(* The host's inputs *)

Times == (0..MaxTime) \cup {U64_MAX}
AckAnswers == {<< >>, <<FALSE>>}
\* (intact, signed): a genuine packet, a tampered one, one with a bad signature
CryptoCases == {<<TRUE, TRUE>>, <<FALSE, TRUE>>, <<TRUE, FALSE>>}
\* a packet's key and its case: the three cases under the channel-0 key, and
\* genuine packets under a channel key
SealCases ==
    {<<CHANNEL_0_KEY, c>> : c \in CryptoCases}
      \cup {<<KeyBytes(1), c>> : c \in CryptoCases \ {<<FALSE, TRUE>>}}

Head_(cmd, byte, size) == [cmd |-> cmd, byte |-> byte, size |-> size]

\* headers: each command with a right and a wrong length, and a byte ('X')
\* that is no command
Headers ==
    {Head_("L", 76, 0), Head_("L", 76, 1),
     Head_("S", 83, SUBSCRIPTION_MESSAGE_SIZE), Head_("S", 83, SUBSCRIPTION_MESSAGE_SIZE - 1),
     Head_("D", 68, 118), Head_("D", 68, 181), Head_("D", 68, 100),
     Head_("X", 88, 0)}

DecodePackets ==
    {Packet(s[1], s[2][1], s[2][2], ch, ts, << >>, None) :
        s \in SealCases, ch \in 0..MaxChannel, ts \in Times}

\* (start_time, end_time): a short window, the widest one, and one whose end
\* lies before its start (the decoder accepts it as it is)
SubWindows == {<<1, 2>>, <<0, U64_MAX>>, <<2, 1>>}

SubscribePackets ==
    {Packet(k, c[1], c[2], 0, 0, << >>, Some(Subscription(ch, w[1], w[2], KeyBytes(1)))) :
        k \in {DECODER_KEY}, c \in CryptoCases,
        ch \in 1..MaxChannel, w \in SubWindows}

----------------------------------------------------------------------------
(* Spec: the device serving requests, each handler in one step *)

Next ==
    \/ Boot
    \/ PowerCycle
    \/ ReadCommandHeader(Headers)
    \/ InvalidCmd(AckAnswers)
    \/ ListCmd(AckAnswers)
    \/ DecodeCmd(DecodePackets, AckAnswers)
    \/ DecodePanic
    \/ SubscribeCmd(SubscribePackets, 1..MaxNonce, AckAnswers)

Spec == Init /\ [][Next]_vars

----------------------------------------------------------------------------
(* Decoding: entitlement, order, window *)

\* a Decode request whose body was read and handed to Decoder::decode_frame
\* finishes in this step
DecodeStep ==
    /\ pc = "cmd"
    /\ hdr.cmd = "D"
    /\ pc' = "idle"
    /\ FrameLength(hdr.size) <= 64

\* the slots of table t that entitle to packet p: the channel's subscription,
\* its key the one the packet was sealed with
SlotsFor(t, p) ==
    {i \in 1..Len(t) : /\ t[i] # None
                       /\ t[i][1].channel_id = p.channel_id
                       /\ t[i][1].channel_key = p.key}

Genuine(p) == p.intact /\ p.signed

\* C1: a 'D' response is written only for a frame whose channel is 0 or
\* subscribed, which decrypts and verifies under that channel's key, whose
\* timestamp lies in the subscription's window, and whose timestamp is not
\* below the highest timestamp decoded since boot.
C1_DecodeOnlyWhenEntitled ==
    [][(pc = "cmd" /\ hdr.cmd = "D" /\ HasHeader(out', "D")) =>
          LET p == req'.pkt
          IN  /\ DecodeStep
              /\ Genuine(p)
              /\ \/ p.channel_id = 0 /\ p.key = CHANNEL_0_KEY
                 \/ /\ p.channel_id # 0
                    /\ \E i \in SlotsFor(subscriptions, p) :
                         /\ subscriptions[i][1].start_time <= p.timestamp
                         /\ p.timestamp <= subscriptions[i][1].end_time
              /\ max_decoded = None \/ p.timestamp >= max_decoded[1]]_vars

\* C1 witness: a frame of a subscribed channel came back in a 'D' response
\* after an earlier frame had been decoded
C1_Witness ==
    /\ pc = "idle"
    /\ req.cmd = "D"
    /\ res = "Ok"
    /\ HasHeader(out, "D")
    /\ req.pkt.channel_id # 0
    /\ max_decoded = Some(req.pkt.timestamp)
    /\ req.pkt.timestamp > 0

\* the frame of packet p passes every check of decode_frame before the order
\* check, under table t
PassesUpToOrder(t, p) ==
    /\ Genuine(p)
    /\ \/ p.channel_id = 0 /\ p.key = CHANNEL_0_KEY
       \/ /\ p.channel_id # 0
          /\ \E i \in SlotsFor(t, p) :
               /\ t[i][1].start_time <= p.timestamp
               /\ p.timestamp <= t[i][1].end_time

\* a Decode request finishes whose frame is older than one decoded this boot
LateFrameStep ==
    /\ DecodeStep
    /\ max_decoded # None
    /\ req'.pkt.timestamp < max_decoded[1]

\* C2 (as stated): after a frame with timestamp t was decoded, every later
\* Decode request of the boot with a timestamp below t fails with
\* FrameOutOfOrder, whatever its channel.
C2_LateFrameIsOutOfOrder ==
    [][LateFrameStep => res' = "FrameOutOfOrder"]_vars

\* C2 (amended): after a frame with timestamp t was decoded, every later
\* Decode request of the boot with a timestamp below t fails and no 'D'
\* response is written; the error is FrameOutOfOrder when the frame passes the
\* checks decode_frame makes first (subscription, decryption, window), and the
\* error of the first of those checks it fails otherwise.
C2_LateFrameFails ==
    [][LateFrameStep =>
          /\ ~HasHeader(out', "D")
          /\ res' \in {"NoSubscription", "FailedDecryption",
                       "SubscriptionTimeMismatch", "FrameOutOfOrder"}
          /\ PassesUpToOrder(subscriptions, req'.pkt) <=> res' = "FrameOutOfOrder"]_vars

\* C2 witness: a frame of another channel than the last decoded one, older
\* than it, was refused as out of order
C2_Witness ==
    /\ pc = "idle"
    /\ req.cmd = "D"
    /\ res = "FrameOutOfOrder"
    /\ max_decoded # None
    /\ req.pkt.timestamp < max_decoded[1]
    /\ req.pkt.channel_id # 0
    /\ ~HasHeader(out, "D")

\* C3: a genuine frame of a subscribed non-zero channel with a timestamp
\* below start_time or above end_time fails with SubscriptionTimeMismatch and
\* no 'D' response is written; with start_time <= end_time, a timestamp equal
\* to either bound is not refused for the window.
C3_WindowIsInclusive ==
    [][(DecodeStep /\ req'.pkt.channel_id # 0 /\ Genuine(req'.pkt)) =>
          \A i \in SlotsFor(subscriptions, req'.pkt) :
             LET s == subscriptions[i][1]
                 ts == req'.pkt.timestamp
             IN  /\ (ts < s.start_time \/ ts > s.end_time) =>
                       res' = "SubscriptionTimeMismatch" /\ ~HasHeader(out', "D")
                 /\ (s.start_time <= s.end_time /\ ts \in {s.start_time, s.end_time}) =>
                       res' # "SubscriptionTimeMismatch"]_vars

\* C3 witness: a genuine frame stamped just past end_time was refused
C3_Witness ==
    /\ pc = "idle"
    /\ req.cmd = "D"
    /\ res = "SubscriptionTimeMismatch"
    /\ Genuine(req.pkt)
    /\ \E i \in SlotsFor(subscriptions, req.pkt) :
         /\ subscriptions[i][1].start_time <= subscriptions[i][1].end_time
         /\ req.pkt.timestamp = subscriptions[i][1].end_time + 1

----------------------------------------------------------------------------
(* SpecTable: Subscribe requests that fill the table.  Channels are numbered
   in the order the host first subscribes to them, which loses no table up to
   a renaming of channels; one more channel than there are slots. *)

TableHeaders == {Head_("S", 83, SUBSCRIPTION_MESSAGE_SIZE)}

\* the first channels come with either window, so that a later request can
\* change a stored entry; the others with one window each
TableWindows(ch) ==
    IF ch <= MaxChannel THEN {<<1, 2>>, <<0, U64_MAX>>}
    ELSE IF ch % 2 = 0 THEN {<<0, U64_MAX>>} ELSE {<<1, 200>>}

TablePackets(t) ==
    {Packet(DECODER_KEY, TRUE, TRUE, 0, 0, << >>,
            Some(Subscription(cw[1], cw[2][1], cw[2][2], KeyBytes(cw[1])))) :
        cw \in UNION {{<<ch, w>> : w \in TableWindows(ch)} :
                         ch \in 1..Min(SubCount(t) + 1, MAX_SUBSCRIPTION_COUNT + 1)}}

NextTable ==
    \/ Boot
    \/ PowerCycle
    \/ ReadCommandHeader(TableHeaders)
    \/ SubscribeCmd(TablePackets(subscriptions), {1}, {<< >>})

SpecTable == Init /\ [][NextTable]_vars

\* the table the next boot would start with: DecoderStorage::init, then
\* Decoder::new; no table when init fails
RebootTable(fl) ==
    LET r == init(fl) IN IF r.err THEN << >> ELSE DecoderNew(r.buf)

\* C5: while the device serves requests, the table in RAM is, slot for slot,
\* the table a reboot would reconstruct from the page (init, then
\* Decoder::new), whatever Subscribe requests came before.
C5_RamEqualsFlash ==
    pc \in {"idle", "cmd"} => subscriptions = RebootTable(flash)

\* C5 witness: a full table whose serialisation is no multiple of 4 bytes (so
\* none of 16 either) was registered and reads back from the page
C5_Witness ==
    /\ pc = "idle"
    /\ req.cmd = "S"
    /\ res = "Ok"
    /\ SubCount(subscriptions) = MAX_SUBSCRIPTION_COUNT
    /\ Len(to_extend(subscriptions)) % 4 # 0
    /\ RebootTable(flash) = subscriptions

\* a Subscribe request whose packet decrypted and verified finishes
SubscribeStep ==
    /\ pc = "cmd"
    /\ hdr.cmd = "S"
    /\ pc' = "idle"
    /\ hdr.size = SUBSCRIPTION_MESSAGE_SIZE
    /\ Genuine(req'.pkt)
    /\ req'.pkt.key = DECODER_KEY

ChannelsOf(t) == {t[i][1].channel_id : i \in {j \in 1..Len(t) : t[j] # None}}

\* C7: with 8 subscriptions to distinct channels stored, a subscription to a
\* 9th channel fails with NoMoreSubscriptionSpace and changes nothing; a
\* subscription to a channel already stored replaces that entry in its slot
\* and does not fail with NoMoreSubscriptionSpace, full table or not.
C7_NinthRefusedOverwriteInPlace ==
    [][SubscribeStep =>
          LET new == req'.pkt.sub[1]
              held == {i \in 1..Len(subscriptions) :
                          subscriptions[i] # None
                            /\ subscriptions[i][1].channel_id = new.channel_id}
          IN  /\ (Cardinality(ChannelsOf(subscriptions)) = 8 /\ held = {}) =>
                    /\ res' = "NoMoreSubscriptionSpace"
                    /\ subscriptions' = subscriptions
                    /\ flash' = flash
              /\ held # {} =>
                    /\ res' # "NoMoreSubscriptionSpace"
                    /\ \E i \in held :
                         subscriptions' = [subscriptions EXCEPT ![i] = Some(new)]]_vars

\* C7 witness: the table holds 8 channels, one of them replaced after it was
\* full, and a 9th channel has just been refused
C7_Witness ==
    /\ pc = "idle"
    /\ res = "NoMoreSubscriptionSpace"
    /\ Cardinality(ChannelsOf(subscriptions)) = 8
    /\ req.pkt.sub[1].channel_id \notin ChannelsOf(subscriptions)
    /\ acked # None
    /\ acked[1].channel_id = 1

----------------------------------------------------------------------------
(* SpecPower: Subscribe requests with flush_buffer write by write, and power
   lost between any two writes or in the middle of one.  The erase and the
   bytes of a write that were stored before the power went stay as they are. *)

FlushPcs == {"flush_erase", "flush_encrypt", "flush_header", "flush_nonce",
             "flush_tag", "flush_data", "flush_magic"}

\* the locals of the data loop with the page, which is the variable flash
LoopLocals == [fls.st EXCEPT !.fl = flash]
KeepLocals(st) == [st EXCEPT !.fl = ErasedPage]

\* run_command's Subscribe arm up to the call of flush_buffer
SubscribeBegin(Packets, AckSets) ==
    /\ pc = "cmd"
    /\ hdr.cmd = "S"
    /\ \E p \in Packets, acks \in AckSets :
         LET pkt == IF hdr.size # SUBSCRIPTION_MESSAGE_SIZE THEN NoPacket ELSE p
             h == SubscribeHead(subscriptions, curr_time, buf, flash, hdr.size, pkt,
                                acks, out)
         IN  IF h.done
             THEN Finish(h.eff, Request(pkt, acks))
             ELSE /\ pc' = "flush_erase"
                  /\ subscriptions' = h.eff.subscriptions
                  /\ buf' = h.eff.buf
                  /\ out' = h.eff.out
                  /\ req' = Request(pkt, acks)
                  /\ fls' = [active |-> TRUE, acks |-> acks, nonce |-> << >>,
                             tag |-> << >>, st |-> DataLoopStart(ErasedPage)]
                  /\ UNCHANGED <<curr_time, flash, hdr, res, ticks, hdr_tick,
                                 took, pw, clk, trng, link>>
    /\ UNCHANGED <<max_decoded, acked, reflushed, stored>>

\* a step of flush_buffer that changes the page to fl and the buffer to bf
FlushStep(from, to, fl, bf, locals) ==
    /\ pc = from
    /\ pc' = to
    /\ flash' = fl
    /\ buf' = bf
    /\ fls' = locals
    /\ UNCHANGED <<subscriptions, curr_time, hdr, out, req, res, max_decoded, acked,
                   ticks, hdr_tick, took, pw, clk, trng, link>>

\* erase_page
FlushErase ==
    /\ FlushStep("flush_erase", "flush_encrypt", ErasedPage, buf, fls)
    /\ reflushed' = TRUE
    /\ stored' = DefaultSubscriptions

\* encrypt_flash_buffer, in place, with a fresh nonce
FlushEncrypt(Nonces) ==
    /\ \E n \in Nonces :
         LET e == encrypt_flash_buffer(buf, NonceBytes(n))
         IN  FlushStep("flush_encrypt", "flush_header", flash, e.buf,
                       [fls EXCEPT !.nonce = e.nonce, !.tag = e.tag])
    /\ UNCHANGED <<reflushed, stored>>

FlushHeader ==
    /\ FlushStep("flush_header", "flush_nonce",
                 write_128(flash, PERSIST_BASE_ADDR, HeaderBlock(Len(buf), fls.nonce)),
                 buf, fls)
    /\ UNCHANGED <<reflushed, stored>>

FlushNonce ==
    /\ FlushStep("flush_nonce", "flush_tag",
                 write_128(flash, PERSIST_BASE_ADDR + 16, NonceBlock(fls.nonce)),
                 buf, fls)
    /\ UNCHANGED <<reflushed, stored>>

FlushTag ==
    /\ FlushStep("flush_tag", "flush_data",
                 write_128(flash, PERSIST_BASE_ADDR + 32, TagBlock(fls.tag)),
                 buf, [fls EXCEPT !.st = DataLoopStart(ErasedPage)])
    /\ UNCHANGED <<reflushed, stored>>

\* one iteration of the data loop
FlushData ==
    /\ pc = "flush_data"
    /\ fls.st.chunk < ChunkCount(buf)
    /\ LET st == DataLoopStep(buf, LoopLocals)
       IN  FlushStep("flush_data", "flush_data", st.fl, buf,
                     [fls EXCEPT !.st = KeepLocals(st)])
    /\ UNCHANGED <<reflushed, stored>>

\* the write after the loop
FlushFinal ==
    /\ pc = "flush_data"
    /\ fls.st.chunk >= ChunkCount(buf)
    /\ FlushStep("flush_data", "flush_magic", FinalWrite(buf, LoopLocals), buf, fls)
    /\ UNCHANGED <<reflushed, stored>>

\* the magic word, then the buffer is zeroized and cleared
FlushMagic ==
    /\ FlushStep("flush_magic", "respond", WriteMagic(flash), << >>, fls)
    /\ stored' = subscriptions
    /\ UNCHANGED reflushed

\* flush_buffer returned Ok: send_empty_payload(b'S')
SubscribeRespond ==
    /\ pc = "respond"
    /\ Finish(SubscribeTail(subscriptions, curr_time, flash, fls.acks, out), req)
    /\ acked' = req.pkt.sub
    /\ reflushed' = FALSE
    /\ UNCHANGED <<max_decoded, stored>>

\* power is cut between two steps of flush_buffer, or before the response
PowerCut == pc \in FlushPcs \cup {"respond"} /\ PowerLoss

\* the page after the write the next step makes, and the bytes of that write
PendingWrite ==
    CASE pc = "flush_header" ->
           [fl |-> write_128(flash, PERSIST_BASE_ADDR, HeaderBlock(Len(buf), fls.nonce)),
            bytes |-> 16]
      [] pc = "flush_nonce" ->
           [fl |-> write_128(flash, PERSIST_BASE_ADDR + 16, NonceBlock(fls.nonce)),
            bytes |-> 16]
      [] pc = "flush_tag" ->
           [fl |-> write_128(flash, PERSIST_BASE_ADDR + 32, TagBlock(fls.tag)),
            bytes |-> 16]
      [] pc = "flush_data" /\ fls.st.chunk < ChunkCount(buf) ->
           [fl |-> DataLoopStep(buf, LoopLocals).fl, bytes |-> 16]
      [] pc = "flush_data" /\ fls.st.chunk >= ChunkCount(buf) ->
           [fl |-> FinalWrite(buf, LoopLocals), bytes |-> 16]
      [] pc = "flush_magic" -> [fl |-> WriteMagic(flash), bytes |-> 4]
      [] OTHER -> [fl |-> flash, bytes |-> 0]

\* a block of which only the first k bytes of the new value were stored
TornBlock(old, new, k) ==
    [w \in 1..4 |-> [b \in 1..4 |-> IF 4 * (w - 1) + b <= k THEN new[w][b] ELSE old[w][b]]]

TornPage(fl, after, k) ==
    [a \in DOMAIN after |->
        IF read_128(fl, a) = after[a] THEN after[a]
        ELSE TornBlock(read_128(fl, a), after[a], k)]

\* power is cut in the middle of a write
TornWrite ==
    /\ pc \in FlushPcs
    /\ PendingWrite.fl # flash
    /\ \E k \in 1..(PendingWrite.bytes - 1) :
         PowerLossWith(TornPage(flash, PendingWrite.fl, k))

PowerHeaders == {Head_("S", 83, SUBSCRIPTION_MESSAGE_SIZE)}

PowerPackets ==
    {Packet(DECODER_KEY, c[1], c[2], 0, 0, << >>,
            Some(Subscription(ch, w[1], w[2], KeyBytes(1)))) :
        c \in {<<TRUE, TRUE>>, <<FALSE, TRUE>>}, ch \in 1..MaxChannel,
        w \in {<<1, 2>>, <<0, U64_MAX>>}}

NextPower ==
    \/ Boot
    \/ PowerCycle
    \/ ReadCommandHeader(PowerHeaders)
    \/ SubscribeBegin(PowerPackets, AckAnswers)
    \/ FlushErase
    \/ FlushEncrypt(1..MaxNonce)
    \/ FlushHeader
    \/ FlushNonce
    \/ FlushTag
    \/ FlushData
    \/ FlushFinal
    \/ FlushMagic
    \/ SubscribeRespond
    \/ PowerCut
    \/ TornWrite

SpecPower == Init /\ [][NextPower]_vars

MagicPresent(fl) == read_32(fl, PERSIST_BASE_ADDR) = FLASH_INITIALIZED_MAGIC

\* table t holds subscription sub in one of its slots
Contains(t, sub) == \E i \in 1..Len(t) : t[i] = Some(sub)

\* flush_buffer has erased the page and not yet written the magic word
BeforeMagic == pc \in FlushPcs \ {"flush_erase"}

\* C4: from the erase of flush_buffer until its magic write, and after power
\* is lost anywhere in between (also in the middle of a write), the magic is
\* absent and the next boot resets the storage and starts with the empty
\* table; once the magic is written the next boot loads the whole table of
\* that flush; a boot never loads anything but the empty table or the table
\* of the last flush that completed.
C4_FlushIsAllOrNothing ==
    /\ BeforeMagic =>
          /\ ~MagicPresent(flash)
          /\ init(flash).flash = reset_storage(flash)
          /\ RebootTable(flash) = DefaultSubscriptions
    /\ pc = "respond" => MagicPresent(flash) /\ RebootTable(flash) = subscriptions
    /\ pc = "off" =>
          /\ RebootTable(flash) = stored
          /\ ~MagicPresent(flash) => stored = DefaultSubscriptions

\* C4 witness: power went in the middle of the magic write of a flush of a
\* table of two subscriptions; every block is there, the magic is not
C4_Witness ==
    /\ pc = "off"
    /\ read_32(flash, PERSIST_BASE_ADDR)[1] = FLASH_INITIALIZED_MAGIC[1]
    /\ ~MagicPresent(flash)
    /\ PERSIST_BASE_ADDR + 96 \in DOMAIN flash
    /\ RebootTable(flash) = DefaultSubscriptions

\* C6 (as stated): once an 'S' response was written for a subscription, a
\* boot from the page as it is at any later moment yields a table that holds
\* that subscription.
C6_AckedSurvivesAnyPowerCycle ==
    acked # None => Contains(RebootTable(flash), acked[1])

\* C6 (amended): when the 'S' response is written the subscription is in the
\* table in RAM and the page, magic word included, holds a table with it; and
\* from then until flush_buffer next begins (a later Subscribe request), a
\* boot from the page yields a table that holds that subscription.  A power
\* loss inside a later flush_buffer leaves the empty table.
C6_AckedSurvivesUntilNextFlush ==
    /\ HasHeader(out, "S") =>
          /\ Contains(subscriptions, req.pkt.sub[1])
          /\ MagicPresent(flash)
          /\ Contains(RebootTable(flash), req.pkt.sub[1])
    /\ (acked # None /\ ~reflushed) => Contains(RebootTable(flash), acked[1])

\* C6 witness: the device was power-cycled after an 'S' response and has
\* booted with the subscription in its table
C6_Witness ==
    /\ pc = "idle"
    /\ req = NoRequest
    /\ acked # None
    /\ ~reflushed
    /\ Contains(subscriptions, acked[1])
    /\ SubCount(subscriptions) = 2

----------------------------------------------------------------------------
(* SpecTiming: requests under the 10 ms tick of TMR0 *)

TRANSACTION_TIME_MILLIS == 5000
\* the period TMR0 is set up for
TICK_MILLIS == 10
TransactionTicks == TRANSACTION_TIME_MILLIS \div TICK_MILLIS

MaxTicks == 500

\* the TMR0 interrupt: the timer's counter has reached the compare value and
\* starts again from 0 (continuous mode); the handler adds one to TICKS
TMR0 ==
    /\ pc \in {"idle", "cmd"}
    /\ ticks < MaxTicks
    /\ ticks' = ticks + 1
    /\ clk' = [clk EXCEPT !.count = 0]
    /\ UNCHANGED <<pc, subscriptions, curr_time, buf, flash, hdr, out, req, res,
                   max_decoded, fls, acked, reflushed, stored, hdr_tick, took, pw,
                   trng, link>>

TimingHeaders == {Head_("X", 88, 0), Head_("L", 76, 0)}

NextTiming ==
    \/ Boot
    \/ PowerCycle
    \/ TMR0
    \/ ReadCommandHeader(TimingHeaders)
    \/ InvalidCmd(AckAnswers)
    \/ ListCmd(AckAnswers)

SpecTiming == Init /\ [][NextTiming]_vars

\* C8: a request that ended with an 'E' response took at least 5 seconds of
\* the clock from the receipt of its header to the last byte written for it.
C8_ErrorTakesFiveSeconds ==
    (pc = "idle" /\ HasHeader(out, "E")) => took >= TransactionTicks

----------------------------------------------------------------------------
(* SpecPayload: one payload of n bytes through DecoderPayloadWriter or
   DecoderPayloadReader, byte by byte.  pw holds the direction, n, the
   struct's counter (bytes_written or bytes_read), the bytes moved on the
   wire, the ACKs read (writer) or written (reader) by write_byte/read_byte
   and by finish_payload, and where the transfer stands. *)

PayloadLengths == {0, 255, 256, 257, 512, 1024}

\* after a byte was counted: the next byte, or finish_payload
AfterByte(count, n) == IF count = n THEN "finish" ELSE "byte"

Untouched ==
    UNCHANGED <<subscriptions, curr_time, buf, flash, hdr, out, req, res, max_decoded,
                fls, acked, reflushed, stored, ticks, hdr_tick, took, clk, trng, link>>

\* new(): a handler starts to move a payload
PayloadBegin(Lengths) ==
    /\ pc = "idle"
    /\ pc' = "transfer"
    /\ \E n \in Lengths, d \in {"write", "read"} :
         pw' = [dir |-> d, n |-> n, count |-> 0, moved |-> 0, acks |-> 0,
                terminal |-> 0, at |-> AfterByte(0, n)]
    /\ Untouched

\* write_byte up to its read_ack: the byte goes out first
WriterWriteByte ==
    /\ pw.dir = "write"
    /\ pw.at = "byte"
    /\ pw' = IF AckDue(pw.count)
             THEN [pw EXCEPT !.moved = @ + 1, !.at = "ack"]
             ELSE [pw EXCEPT !.moved = @ + 1, !.count = @ + 1,
                             !.at = AfterByte(pw.count + 1, pw.n)]
    /\ UNCHANGED pc
    /\ Untouched

\* the read_ack of write_byte: an ACK, or something else from the host
WriterReadAck ==
    /\ pw.dir = "write"
    /\ pw.at = "ack"
    /\ \E ack \in BOOLEAN :
         pw' = IF ack
               THEN [pw EXCEPT !.acks = @ + 1, !.count = @ + 1,
                               !.at = AfterByte(pw.count + 1, pw.n)]
               ELSE [pw EXCEPT !.at = "failed"]
    /\ UNCHANGED pc
    /\ Untouched

\* the writer's finish_payload: read_ack
WriterFinish ==
    /\ pw.dir = "write"
    /\ pw.at = "finish"
    /\ \E ack \in BOOLEAN :
         pw' = IF ack
               THEN [pw EXCEPT !.terminal = @ + 1, !.at = "done"]
               ELSE [pw EXCEPT !.at = "failed"]
    /\ UNCHANGED pc
    /\ Untouched

\* read_byte: the byte comes in, then the ACK when one is due
ReaderReadByte ==
    /\ pw.dir = "read"
    /\ pw.at = "byte"
    /\ pw' = [pw EXCEPT !.moved = @ + 1,
                        !.acks = IF AckDue(pw.count) THEN @ + 1 ELSE @,
                        !.count = @ + 1,
                        !.at = AfterByte(pw.count + 1, pw.n)]
    /\ UNCHANGED pc
    /\ Untouched

\* the reader's finish_payload: write_ack
ReaderFinish ==
    /\ pw.dir = "read"
    /\ pw.at = "finish"
    /\ pw' = [pw EXCEPT !.terminal = @ + 1, !.at = "done"]
    /\ UNCHANGED pc
    /\ Untouched

\* the payload is through, or the handler returned ExpectedAckButGotOther
PayloadEnd ==
    /\ pc = "transfer"
    /\ pw.at \in {"done", "failed"}
    /\ pw' = NoTransfer
    /\ pc' = "idle"
    /\ Untouched

NextPayload ==
    \/ Boot
    \/ PayloadBegin(PayloadLengths)
    \/ WriterWriteByte
    \/ WriterReadAck
    \/ WriterFinish
    \/ ReaderReadByte
    \/ ReaderFinish
    \/ PayloadEnd

SpecPayload == Init /\ [][NextPayload]_vars

\* ceil(n / 256)
Chunks(n) == (n + 255) \div 256

Transferred == pw.dir # "none" /\ pw.at = "done"

\* C9 (as stated): a payload of N bytes takes ceil(N/256) ACKs during the
\* transfer and one terminal ACK; for N = 0 only the terminal one.
C9_AcksAreChunksPlusOne ==
    Transferred => pw.acks = Chunks(pw.n) /\ pw.terminal = 1

\* C9 (amended): a payload of N bytes takes one terminal ACK and, during the
\* transfer, one ACK for each whole 256 bytes that another byte follows:
\* (N-1) div 256 for N > 0, none for N = 0; in all ceil(N/256) ACKs for
\* N > 0 and one for N = 0, for the writer and for the reader.
C9_AcksAreChunks ==
    Transferred =>
       /\ pw.terminal = 1
       /\ pw.acks = IF pw.n = 0 THEN 0 ELSE (pw.n - 1) \div 256
       /\ pw.acks + pw.terminal = IF pw.n = 0 THEN 1 ELSE Chunks(pw.n)

\* C9 witness: 257 bytes went out with one ACK on the way and the terminal one
C9_Witness ==
    /\ Transferred
    /\ pw.dir = "write"
    /\ pw.n = 257
    /\ pw.moved = 257
    /\ pw.acks = 1
    /\ pw.terminal = 1

\* C10: the writer has never put more than 256 bytes on the wire beyond the
\* chunks for which it has read the host's ACK.
C10_WriterWaitsForAck ==
    pw.dir = "write" => pw.moved <= 256 * (pw.acks + 1)

----------------------------------------------------------------------------
(* Requests: declared lengths, tampered packets, channel 0 *)

\* the entries of a log that are ACKs
AckCount(log) == Cardinality({i \in 1..Len(log) : log[i] = Ack})

\* a List or Subscribe request whose declared length is not the one of its
\* command finishes
WrongLengthStep ==
    /\ pc = "cmd"
    /\ pc' = "idle"
    /\ \/ hdr.cmd = "L" /\ hdr.size # 0
       \/ hdr.cmd = "S" /\ hdr.size # SUBSCRIPTION_MESSAGE_SIZE

SubscribeBodyStep ==
    /\ pc = "cmd"
    /\ hdr.cmd = "S"
    /\ pc' = "idle"
    /\ hdr.size = SUBSCRIPTION_MESSAGE_SIZE

\* C12: a Subscribe payload, and a Decode payload for channel 0 or for a
\* subscribed channel, whose nonce, tag or ciphertext was altered or whose
\* signature does not verify, fails with FailedDecryption: no 'S' response,
\* the table and the page unchanged; no 'D' response, no payload written but
\* the error message, curr_time unchanged.
C12_AlteredPacketFailsDecryption ==
    [][/\ (SubscribeBodyStep /\ ~Genuine(req'.pkt)) =>
             /\ res' = "FailedDecryption"
             /\ ~HasHeader(out', "S")
             /\ subscriptions' = subscriptions
             /\ flash' = flash
       /\ (DecodeStep /\ ~Genuine(req'.pkt)
             /\ ChannelAccess(subscriptions, req'.pkt.channel_id) # None) =>
             /\ res' = "FailedDecryption"
             /\ ~HasHeader(out', "D")
             /\ \A i \in 1..Len(out') :
                  out'[i].t = "payload" => out'[i].data = Message("FailedDecryption")
             /\ curr_time' = curr_time]_vars

\* C12 witness: a frame of a subscribed channel, sealed under the channel's
\* key and stamped inside the window, was refused because its signature does
\* not verify
C12_Witness ==
    /\ pc = "idle"
    /\ req.cmd = "D"
    /\ res = "FailedDecryption"
    /\ req.pkt.intact
    /\ ~req.pkt.signed
    /\ \E i \in SlotsFor(subscriptions, req.pkt) :
         /\ subscriptions[i][1].start_time <= req.pkt.timestamp
         /\ req.pkt.timestamp <= subscriptions[i][1].end_time

----------------------------------------------------------------------------
(* SpecZero: the emergency channel.  Subscribe requests fill the table as in
   SpecTable, and may also carry channel_id 0 (with a short window and a key
   that is not CHANNEL_0_KEY); Decode requests are for channel 0. *)

ZeroHeaders == {Head_("S", 83, SUBSCRIPTION_MESSAGE_SIZE), Head_("D", 68, 118)}

\* the non-zero channels in the order of their first subscription, and 0
ZeroChannels(t) ==
    {0} \cup (1..Min(Cardinality(ChannelsOf(t) \ {0}) + 1, MAX_SUBSCRIPTION_COUNT + 1))

ZeroWindow(ch) == IF ch % 2 = 0 THEN <<1, 2>> ELSE <<0, U64_MAX>>

ZeroSubscribePackets(t) ==
    {Packet(DECODER_KEY, TRUE, TRUE, 0, 0, << >>,
            Some(Subscription(ch, ZeroWindow(ch)[1], ZeroWindow(ch)[2], KeyBytes(1)))) :
        ch \in ZeroChannels(t)}

\* frames for channel 0: genuine or tampered under CHANNEL_0_KEY, and genuine
\* under the key a stored subscription for channel 0 would hold
ZeroDecodePackets ==
    {Packet(s[1], s[2], TRUE, 0, ts, << >>, None) :
        s \in {<<CHANNEL_0_KEY, TRUE>>, <<CHANNEL_0_KEY, FALSE>>, <<KeyBytes(1), TRUE>>},
        ts \in {0, MaxTime, U64_MAX}}

NextZero ==
    \/ Boot
    \/ PowerCycle
    \/ ReadCommandHeader(ZeroHeaders)
    \/ SubscribeCmd(ZeroSubscribePackets(subscriptions), {1}, {<< >>})
    \/ DecodeCmd(ZeroDecodePackets, {<< >>})

SpecZero == Init /\ [][NextZero]_vars

\* C13: whatever the table holds (nothing, eight subscriptions, one for
\* channel 0), a Decode request for channel 0 is decided by CHANNEL_0_KEY,
\* the window [0, u64::MAX] and curr_time alone: a frame that is not genuine
\* under CHANNEL_0_KEY fails with FailedDecryption, a genuine one older than
\* curr_time with FrameOutOfOrder, every other one is decoded; it never fails
\* with NoSubscription or SubscriptionTimeMismatch.
C13_ChannelZeroIgnoresTable ==
    [][(DecodeStep /\ req'.pkt.channel_id = 0) =>
          LET p == req'.pkt
              sealed == Genuine(p) /\ p.key = CHANNEL_0_KEY
          IN  /\ res' \notin {"NoSubscription", "SubscriptionTimeMismatch"}
              /\ ~sealed => res' = "FailedDecryption" /\ curr_time' = curr_time
              /\ (sealed /\ curr_time # None /\ curr_time[1] > p.timestamp) =>
                    res' = "FrameOutOfOrder" /\ curr_time' = curr_time
              /\ (sealed /\ (curr_time = None \/ curr_time[1] <= p.timestamp)) =>
                    /\ res' = "Ok"
                    /\ HasHeader(out', "D")
                    /\ curr_time' = Some(p.timestamp)]_vars

\* C13 witness: with a full table that holds a subscription for channel 0
\* whose window ends at 2, a channel-0 frame stamped u64::MAX was decoded
C13_Witness ==
    /\ pc = "idle"
    /\ req.cmd = "D"
    /\ req.pkt.channel_id = 0
    /\ req.pkt.timestamp = U64_MAX
    /\ res = "Ok"
    /\ HasHeader(out, "D")
    /\ SubCount(subscriptions) = MAX_SUBSCRIPTION_COUNT
    /\ \E i \in SlotsOf(subscriptions, 0) : subscriptions[i][1].end_time = 2

\* the subscriptions of table t for channel 0
ZeroSlots(t) == SlotsOf(t, 0)

\* C14: no slot of the table in RAM, and no slot of the table a boot would
\* reconstruct from the page, holds a subscription with channel_id 0.
C14_NoChannelZeroStored ==
    pc \in {"idle", "cmd"} =>
       /\ ZeroSlots(subscriptions) = {}
       /\ ZeroSlots(RebootTable(flash)) = {}

----------------------------------------------------------------------------
(* The table: one slot per channel *)

\* no two occupied slots of table t hold the same channel_id
OneSlotPerChannel(t) ==
    \A i, j \in 1..Len(t) :
       (t[i] # None /\ t[j] # None /\ t[i][1].channel_id = t[j][1].channel_id) => i = j

\* C15: after any sequence of Subscribe requests and reboots, no two occupied
\* slots of the table in RAM hold the same channel_id, and neither do two
\* slots of the table a boot would reconstruct from the page.
C15_OneSlotPerChannel ==
    pc \in {"idle", "cmd"} =>
       /\ OneSlotPerChannel(subscriptions)
       /\ OneSlotPerChannel(RebootTable(flash))

\* C15 witness: with eight channels stored, the first of them was subscribed
\* to again and the table still holds eight channels in eight slots
C15_Witness ==
    /\ pc = "idle"
    /\ req.cmd = "S"
    /\ res = "Ok"
    /\ req.pkt.sub[1].channel_id = 1
    /\ SubCount(subscriptions) = MAX_SUBSCRIPTION_COUNT
    /\ Cardinality(ChannelsOf(subscriptions)) = MAX_SUBSCRIPTION_COUNT

----------------------------------------------------------------------------
(* SpecClock: DecoderClock (timer.rs) under the timer.  Between two TMR0
   interrupts the timer's counter passes through TimerSteps positions, so
   that a transaction can start at any phase of a tick; real time is counted
   in those positions.  A run follows one transaction until its wait
   returns. *)

\* ClockInstant = Instant<u32, 100, 1>: the fraction of a second one tick of
\* the time base stands for is CLOCK_NOM / CLOCK_DENOM
CLOCK_NOM == 100
CLOCK_DENOM == 1

\* the positions of the timer's counter the model tells apart within a tick
TimerSteps == 2

\* u32::millis() in the time base of ClockInstant: whole ticks, rounded down
MillisToTicks(ms) == (ms * CLOCK_DENOM) \div (1000 * CLOCK_NOM)

\* DecoderClock::now
now == ticks

\* real time since power-on, in counter positions (TimerSteps to a TMR0 period)
RealTime == ticks * TimerSteps + clk.count

ClockUntouched ==
    UNCHANGED <<pc, subscriptions, curr_time, buf, flash, hdr, out, req, res,
                max_decoded, fls, acked, reflushed, stored, ticks, hdr_tick, took, pw,
                trng, link>>

\* the timer counts on, short of the compare value
TimerCount ==
    /\ pc = "idle"
    /\ clk.at # "returned"
    /\ clk.count < TimerSteps - 1
    /\ clk' = [clk EXCEPT !.count = @ + 1]
    /\ ClockUntouched

\* the counter reaches the compare value: the TMR0 interrupt
TimerCompare ==
    /\ clk.at # "returned"
    /\ clk.count = TimerSteps - 1
    /\ TMR0

\* start_transaction
start_transaction ==
    /\ pc = "idle"
    /\ clk.at = "idle"
    /\ clk' = [clk EXCEPT !.transaction_time = Some(now), !.at = "started",
                          !.started = RealTime]
    /\ ClockUntouched

\* wait_for_max_transaction_time returns: the loop of wait_for_instant ends
\* once now() is not below transaction_start + TRANSACTION_TIME_MILLIS.millis()
wait_for_max_transaction_time ==
    /\ pc = "idle"
    /\ clk.at = "started"
    /\ LET transaction_end == clk.transaction_time[1] + MillisToTicks(TRANSACTION_TIME_MILLIS)
       IN  ~(now < transaction_end)
    /\ clk' = [clk EXCEPT !.at = "returned", !.returned = RealTime]
    /\ ClockUntouched

NextClock ==
    \/ Boot
    \/ PowerCycle
    \/ TimerCount
    \/ TimerCompare
    \/ start_transaction
    \/ wait_for_max_transaction_time

SpecClock == Init /\ [][NextClock]_vars

\* C16: when wait_for_max_transaction_time returns, at least 5 seconds of real
\* time have passed since start_transaction was called, whatever the position
\* of the timer's counter at that call.
C16_WaitLastsFiveSeconds ==
    clk.at = "returned" =>
       (clk.returned - clk.started) * TICK_MILLIS >= TRANSACTION_TIME_MILLIS * TimerSteps

----------------------------------------------------------------------------
(* SpecErrors: requests that fail, with more than one wrong length and more
   than one unknown command byte *)

\* run_command as a whole on header h: the ACK of read_command_header for a
\* known command, then the arm of the command
run_command(t, ct, bf, fl, h, pkt, nonce, acks) ==
    IF h.cmd = "L"
    THEN ListCommand(t, ct, bf, fl, h.size, acks, <<Ack>>)
    ELSE IF h.cmd = "S"
    THEN SubscribeCommand(t, ct, bf, fl, h.size,
                          IF h.size # SUBSCRIPTION_MESSAGE_SIZE THEN NoPacket ELSE pkt,
                          nonce, acks, <<Ack>>)
    ELSE IF h.cmd = "D"
    THEN DecodeCommand(t, ct, bf, fl, h.size,
                       IF FrameLength(h.size) > 64 THEN NoPacket ELSE pkt, acks, <<Ack>>)
    ELSE InvalidCommand(t, ct, bf, fl, h.byte, acks, << >>)

\* the 'E' response in a log: the entries from the 'E' header on
EResponse(log) ==
    LET at == {i \in 1..Len(log) : log[i].t = "E"}
    IN  IF at = {} THEN << >> ELSE SubSeq(log, MinOf(at), Len(log))

ErrorHeaders ==
    {Head_("L", 76, 1), Head_("L", 76, 10),
     Head_("S", 83, SUBSCRIPTION_MESSAGE_SIZE), Head_("S", 83, SUBSCRIPTION_MESSAGE_SIZE - 1),
     Head_("S", 83, 20),
     Head_("D", 68, 118), Head_("D", 68, 181), Head_("D", 68, 200),
     Head_("X", 88, 0), Head_("Z", 90, 0), Head_("\t", 9, 0)}

ErrorSubscribePackets ==
    {Packet(DECODER_KEY, c, TRUE, 0, 0, << >>,
            Some(Subscription(1, 1, 2, KeyBytes(1)))) : c \in BOOLEAN}

ErrorDecodePackets ==
    {Packet(KeyBytes(1), c, TRUE, ch, ts, << >>, None) :
        c \in BOOLEAN, ch \in {1, 2}, ts \in {0, 1, MaxTime}}

NextErrors ==
    \/ Boot
    \/ PowerCycle
    \/ ReadCommandHeader(ErrorHeaders)
    \/ InvalidCmd({<< >>})
    \/ ListCmd({<< >>})
    \/ DecodeCmd(ErrorDecodePackets, {<< >>})
    \/ SubscribeCmd(ErrorSubscribePackets, {1}, {<< >>})

SpecErrors == Init /\ [][NextErrors]_vars

\* what a request with header h and packet p would leave, were it the next one
Would(h, p) ==
    run_command(subscriptions, curr_time, buf, flash, h,
                IF h.cmd = "D" THEN [p EXCEPT !.frame = FrameBytes(FrameLength(h.size))]
                ELSE p,
                NonceBytes(1), << >>)

\* C17: any two requests that fail with the same error are answered with the
\* same 'E' response, header length and payload bytes alike, whatever their
\* declared lengths, command bytes and bodies.
C17_ErrorPayloadFixedByKind ==
    pc = "idle" =>
       \A h1, h2 \in ErrorHeaders :
          \A p1, p2 \in ErrorSubscribePackets \cup ErrorDecodePackets :
             LET e1 == Would(h1, p1)
                 e2 == Would(h2, p2)
             IN  (e1.outcome # "Ok" /\ e1.outcome = e2.outcome) =>
                    EResponse(e1.out) = EResponse(e2.out)

----------------------------------------------------------------------------
(* List on a fresh device *)

\* C18: after a boot from a page without the magic word, a List request with
\* declared length 0 whose host ACKs every packet is answered with exactly one
\* ACK, then the header 'L' with length 4, then the body 00 00 00 00, and
\* nothing else.
C18_FreshListIsAckHeaderBody ==
    (/\ pc = "idle"
     /\ req.cmd = "L"
     /\ req.size = 0
     /\ req.acks = << >>
     /\ subscriptions = DefaultSubscriptions) =>
       out = <<Ack, Header("L", 4), Payload(4, <<0, 0, 0, 0>>)>>

----------------------------------------------------------------------------
(* SpecTamper: the page is altered while the device is off.  One byte of the
   length, the nonce, the tag or the data of an image that verifies is
   changed; the magic word is left alone. *)

\* the image on the page verifies: the tag over the stored bytes is the
\* stored tag
ImageVerifies(fl) ==
    LET length == read_32(fl, DATA_LEN_ADDR)
    IN  /\ ~WordExceedsStorageMax(length)
        /\ Mac(FLASH_KEY, StoredNonce(fl), FillLoop(fl, WordValue(length))) = StoredTag(fl)

\* the first byte of word w of the block at addr is changed
TamperedPage(fl, addr, w) ==
    write_128(fl, addr, [fl[addr] EXCEPT ![w][1] = (@ + 1) % 256])

Tamper ==
    /\ pc = "off"
    /\ MagicPresent(flash)
    /\ ImageVerifies(flash)
    /\ \E k \in 0..3, w \in 1..4 :
         /\ ~(k = 0 /\ w = 1)
         /\ PERSIST_BASE_ADDR + 16 * k \in DOMAIN flash
         /\ flash' = TamperedPage(flash, PERSIST_BASE_ADDR + 16 * k, w)
    /\ UNCHANGED <<pc, subscriptions, curr_time, buf, hdr, out, req, res, max_decoded,
                   fls, acked, reflushed, stored, ticks, hdr_tick, took, pw, clk, trng, link>>

TamperHeaders == {Head_("S", 83, SUBSCRIPTION_MESSAGE_SIZE), Head_("L", 76, 0)}

NextTamper ==
    \/ Boot
    \/ PowerCycle
    \/ Tamper
    \/ ReadCommandHeader(TamperHeaders)
    \/ ListCmd({<< >>})
    \/ SubscribeCmd(PowerPackets, {1}, {<< >>})

SpecTamper == Init /\ [][NextTamper]_vars

\* the device boots from a page with the magic word, a length within
\* STORAGE_MAX and an image that does not verify
BootsFromBadImage ==
    /\ pc = "off"
    /\ pc' # "off"
    /\ MagicPresent(flash)
    /\ ~WordExceedsStorageMax(read_32(flash, DATA_LEN_ADDR))
    /\ ~ImageVerifies(flash)

\* C19: a boot from a page whose magic word is present and whose image fails
\* verification ends in the main loop with the empty table, nothing written
\* to the host and the page as it was; and the page of a running device only
\* changes in a Subscribe request that registers its subscription, which
\* leaves an image that verifies and holds the table in RAM.
C19_BadImageBootsEmptySilently ==
    [][/\ BootsFromBadImage =>
             /\ pc' = "idle"
             /\ subscriptions' = DefaultSubscriptions
             /\ out' = << >>
             /\ flash' = flash
       /\ (pc \in {"idle", "cmd"} /\ flash' # flash) =>
             /\ pc = "cmd"
             /\ hdr.cmd = "S"
             /\ res' \in {"Ok", "ExpectedAckButGotOther"}
             /\ Contains(subscriptions', req'.pkt.sub[1])
             /\ ImageVerifies(flash')
             /\ RebootTable(flash') = subscriptions']_vars

\* C19 witness: the image of a table with a subscription was altered; the
\* device has booted from it with the empty table and the page still holds
\* the altered image
C19_Witness ==
    /\ pc = "idle"
    /\ req = NoRequest
    /\ out = << >>
    /\ stored # DefaultSubscriptions
    /\ subscriptions = DefaultSubscriptions
    /\ MagicPresent(flash)
    /\ WordValue(read_32(flash, DATA_LEN_ADDR)) > 0
    /\ ~ImageVerifies(flash)

----------------------------------------------------------------------------
(* SpecFlashError: SpecPower with a flash controller that may refuse a write.
   write_128 or write_32 returns Err, flush_buffer returns FlashError through
   `?`, register_subscription turns it into SavingFailed and the loop of main
   reports it. *)

\* the steps of flush_buffer that write to the page
FlushWritePcs == {"flush_header", "flush_nonce", "flush_tag", "flush_data", "flush_magic"}

\* a write of flush_buffer fails: the page keeps what it has, flush_buffer
\* returns at once, the request ends with SavingFailed
FlushFail ==
    /\ pc \in FlushWritePcs
    /\ Finish(Effect(subscriptions, curr_time, buf, flash,
                     Report("SavingFailed", fls.acks, out), "SavingFailed"),
              req)
    /\ UNCHANGED <<max_decoded, acked, reflushed, stored>>

NextFlashError ==
    \/ Boot
    \/ PowerCycle
    \/ ReadCommandHeader(PowerHeaders)
    \/ SubscribeBegin(PowerPackets, {<< >>})
    \/ FlushErase
    \/ FlushEncrypt({1})
    \/ FlushHeader
    \/ FlushNonce
    \/ FlushTag
    \/ FlushData
    \/ FlushFinal
    \/ FlushMagic
    \/ FlushFail
    \/ SubscribeRespond
    \/ PowerCut

SpecFlashError == Init /\ [][NextFlashError]_vars

\* flush_buffer returns in this step, with Ok or with an error
FlushReturns == pc \in FlushPcs /\ pc' \notin FlushPcs \cup {"off"}

\* C20: when flush_buffer returns, with Ok or with an error, the storage
\* buffer is empty (zeroized and cleared); and so it is after a boot in which
\* fill_buffer failed to decrypt the stored image.
C20_BufferClearedAfterFlush ==
    [][/\ FlushReturns => buf' = << >>
       /\ BootsFromBadImage => buf' = << >>]_vars

----------------------------------------------------------------------------
(* Unknown command bytes *)

\* the entries of a log that are headers of type t
HeaderCount(log, t) == Cardinality({i \in 1..Len(log) : log[i].t = t})

\* a request whose command byte is none of 'L', 'S', 'D' finishes
UnknownCommandStep ==
    /\ pc = "cmd"
    /\ hdr.cmd \notin {"L", "S", "D"}
    /\ pc' = "idle"

\* C21: a request whose command byte is not 'L', 'S' or 'D' is answered with
\* one 'E' header and no other header, leaves the table, the page and
\* curr_time as they were, is over no sooner than the transaction deadline
\* (5 s after its header), and the device is back reading the next header.
C21_UnknownCommandErrorAfterDeadline ==
    [][UnknownCommandStep =>
          /\ HeaderCount(out', "E") = 1
          /\ \A t \in {"L", "S", "D"} : HeaderCount(out', t) = 0
          /\ subscriptions' = subscriptions
          /\ flash' = flash
          /\ curr_time' = curr_time
          /\ took' >= TransactionTicks]_vars

----------------------------------------------------------------------------
(* The table: windows *)

\* every subscription of table t has its start_time at or before its end_time
WindowsOrdered(t) ==
    \A i \in 1..Len(t) : t[i] # None => t[i][1].start_time <= t[i][1].end_time

\* C22: every subscription in the table in RAM, and in the table a boot would
\* reconstruct from the page, has start_time <= end_time; a Subscribe request
\* that carries start_time > end_time leaves the table as it was.
C22_StoredWindowsOrdered ==
    /\ pc \in {"idle", "cmd"} =>
          WindowsOrdered(subscriptions) /\ WindowsOrdered(RebootTable(flash))
    /\ (pc = "idle" /\ req.cmd = "S" /\ req.pkt.sub # None
          /\ req.pkt.sub[1].start_time > req.pkt.sub[1].end_time) =>
          ~Contains(subscriptions, req.pkt.sub[1])

----------------------------------------------------------------------------
(* Decoding: the order of the checks *)

\* the first step of Decoder::decode_frame that packet p fails under table t
\* and last timestamp ct, "Ok" when it fails none
FirstFailingStep(t, ct, p) ==
    LET held == {i \in 1..Len(t) : t[i] # None /\ t[i][1].channel_id = p.channel_id}
    IN  IF p.channel_id # 0 /\ held = {}
        THEN "NoSubscription"
        ELSE LET zero == p.channel_id = 0
                 key == IF zero THEN CHANNEL_0_KEY ELSE t[MinOf(held)][1].channel_key
                 start == IF zero THEN 0 ELSE t[MinOf(held)][1].start_time
                 end == IF zero THEN U64_MAX ELSE t[MinOf(held)][1].end_time
             IN  IF ~(p.intact /\ p.key = key) \/ ~p.signed
                 THEN "FailedDecryption"
                 ELSE IF p.timestamp < start \/ p.timestamp > end
                 THEN "SubscriptionTimeMismatch"
                 ELSE IF ct # None /\ ct[1] > p.timestamp
                 THEN "FrameOutOfOrder"
                 ELSE "Ok"

\* C23: a Decode request whose body was read ends with the error of the first
\* step its frame fails, in the order NoSubscription, FailedDecryption,
\* SubscriptionTimeMismatch, FrameOutOfOrder, with no 'D' header written and
\* curr_time unchanged; a frame that fails none (a timestamp equal to
\* curr_time included) is decoded: curr_time becomes its timestamp, the 'D'
\* header carries the frame's length and the bytes after the timestamp are
\* what is written.
C23_FirstFailingStepDecides ==
    [][DecodeStep =>
          LET p == req'.pkt
              expected == FirstFailingStep(subscriptions, curr_time, p)
          IN  IF expected # "Ok"
              THEN /\ res' = expected
                   /\ ~HasHeader(out', "D")
                   /\ curr_time' = curr_time
              ELSE /\ res' \in {"Ok", "ExpectedAckButGotOther"}
                   /\ HeaderCount(out', "D") = 1
                   /\ \E i \in 1..Len(out') : out'[i] = Header("D", Len(p.frame))
                   /\ curr_time' = Some(p.timestamp)
                   /\ res' = "Ok" =>
                         out'[Len(out')] = Payload(Len(p.frame), p.frame)]_vars

\* C23 witness: a genuine frame of a subscribed channel, stamped after the end
\* of the window and before the last decoded timestamp, was refused with
\* SubscriptionTimeMismatch
C23_Witness ==
    /\ pc = "idle"
    /\ req.cmd = "D"
    /\ res = "SubscriptionTimeMismatch"
    /\ Genuine(req.pkt)
    /\ curr_time # None
    /\ curr_time[1] > req.pkt.timestamp
    /\ \E i \in SlotsFor(subscriptions, req.pkt) :
         /\ subscriptions[i][1].start_time <= subscriptions[i][1].end_time
         /\ subscriptions[i][1].end_time < req.pkt.timestamp

----------------------------------------------------------------------------
(* curr_time, the last timestamp *)

\* a request finishes
RequestStep == pc = "cmd" /\ pc' = "idle"

\* curr_time o is not above curr_time n
NotAbove(o, n) == o = None \/ (n # None /\ o[1] <= n[1])

\* what holds of curr_time whatever a failed request is taken to be: absent
\* after a boot; equal to the highest timestamp of the frames decode_frame has
\* accepted since boot (max_decoded, absent when there is none); never
\* decreasing while powered
LastTimestampTracksDecodes ==
    /\ (pc = "off" /\ pc' # "off") => curr_time' = None
    /\ pc' \in {"idle", "cmd"} => curr_time' = max_decoded'
    /\ (pc \in {"idle", "cmd"} /\ pc' \in {"idle", "cmd"}) => NotAbove(curr_time, curr_time')

\* C24 (as stated): curr_time is absent at every boot, equals the highest
\* timestamp decoded since boot, never decreases while powered, and no List,
\* Subscribe or failed Decode request (one that ends with an error) changes it.
C24_FailedRequestsKeepLastTimestamp ==
    [][/\ LastTimestampTracksDecodes
       /\ (RequestStep /\ (hdr.cmd # "D" \/ res' # "Ok")) => curr_time' = curr_time]_vars

\* C24 (amended): curr_time is absent at every boot, equals the highest
\* timestamp among the frames Decoder::decode_frame has accepted since boot,
\* never decreases while powered, and is changed by no List or Subscribe
\* request, no request with an unknown command byte and no Decode request whose
\* frame decode_frame refuses.  A Decode request whose frame is accepted sets
\* it to the frame's timestamp, also when the host then answers the 'D' header
\* or the frame with something else than an ACK and the request ends with
\* ExpectedAckButGotOther.
C24_RefusedFramesKeepLastTimestamp ==
    [][/\ LastTimestampTracksDecodes
       /\ (RequestStep /\ ~HasHeader(out', "D")) => curr_time' = curr_time
       /\ (RequestStep /\ HasHeader(out', "D")) =>
             /\ hdr.cmd = "D"
             /\ res' \in {"Ok", "ExpectedAckButGotOther"}
             /\ curr_time' = Some(req'.pkt.timestamp)]_vars

\* C24 witness: a frame of a subscribed channel was accepted and its 'D'
\* header not ACKed: the request failed and curr_time is the frame's timestamp
C24_Witness ==
    /\ pc = "idle"
    /\ req.cmd = "D"
    /\ res = "ExpectedAckButGotOther"
    /\ HasHeader(out, "D")
    /\ req.pkt.channel_id # 0
    /\ req.pkt.timestamp = 2
    /\ curr_time = Some(2)
    /\ max_decoded = Some(2)

----------------------------------------------------------------------------
(* The table: one slot changes *)

\* the entries of table t for other channels than c, in slot order: what a
\* List response shows of them
OtherEntries(t, c) == SelectSeq(t, LAMBDA s : s # None /\ s[1].channel_id # c)

\* C25: a Subscribe request whose packet is genuine changes exactly one slot:
\* the slot that holds the subscription's channel_id when there is one, else
\* the empty slot of lowest index; every other slot keeps its content, so the
\* other entries keep their order.  When neither exists the request fails with
\* NoMoreSubscriptionSpace, no slot changes and flush_buffer is not entered:
\* the page stays as it is.
C25_ExactlyOneSlotChanges ==
    [][SubscribeStep =>
          LET new == req'.pkt.sub[1]
              n == Len(subscriptions)
              held == {i \in 1..n : subscriptions[i] # None
                                      /\ subscriptions[i][1].channel_id = new.channel_id}
              empty == {i \in 1..n : subscriptions[i] = None}
              target == IF held # {} THEN held
                        ELSE {i \in empty : \A j \in empty : i <= j}
          IN  IF target = {}
              THEN /\ res' = "NoMoreSubscriptionSpace"
                   /\ subscriptions' = subscriptions
                   /\ flash' = flash
                   /\ reflushed' = reflushed
                   /\ stored' = stored
              ELSE /\ Cardinality(target) = 1
                   /\ res' # "NoMoreSubscriptionSpace"
                   /\ \A k \in target :
                        /\ subscriptions'[k] = Some(new)
                        /\ \A i \in (1..n) \ {k} : subscriptions'[i] = subscriptions[i]
                   /\ Len(subscriptions') = n
                   /\ OtherEntries(subscriptions', new.channel_id)
                        = OtherEntries(subscriptions, new.channel_id)]_vars

\* C25 witness: with three channels stored, the entry of the second one was
\* replaced in its slot, between the other two
C25_Witness ==
    /\ pc = "idle"
    /\ req.cmd = "S"
    /\ res = "Ok"
    /\ SubCount(subscriptions) = 3
    /\ req.pkt.sub[1].channel_id = 2
    /\ subscriptions[2] = req.pkt.sub
    /\ subscriptions[1] # None
    /\ subscriptions[3] # None

----------------------------------------------------------------------------
(* SpecList: List requests over tables of 0 to 8 subscriptions.  The table is
   filled as in SpecTable; a frame of channel 0 can be decoded, so that
   curr_time is set when a List request comes. *)

ListHeaders ==
    {Head_("S", 83, SUBSCRIPTION_MESSAGE_SIZE), Head_("L", 76, 0), Head_("D", 68, 118)}

ListDecodePackets == {Packet(CHANNEL_0_KEY, TRUE, TRUE, 0, 1, << >>, None)}

NextList ==
    \/ Boot
    \/ PowerCycle
    \/ ReadCommandHeader(ListHeaders)
    \/ SubscribeCmd(TablePackets(subscriptions), {1}, {<< >>})
    \/ DecodeCmd(ListDecodePackets, {<< >>})
    \/ ListCmd(AckAnswers)

SpecList == Init /\ [][NextList]_vars

\* byte j (from 0) of the little-endian form of v, eight bytes wide
LeByte(v, j) ==
    IF v = U64_MAX THEN 255
    ELSE IF j >= 4 THEN 0
    ELSE (v \div (IF j = 0 THEN 1 ELSE IF j = 1 THEN 256 ELSE IF j = 2 THEN 65536
                  ELSE 16777216)) % 256

\* the body of the List response for table t, byte by byte: the count in four
\* bytes, then 20 bytes for each occupied slot in slot order
ListBody(t) ==
    LET occupied == SelectSeq(t, LAMBDA s : s # None)
    IN  [k \in 1..(4 + 20 * Len(occupied)) |->
            IF k <= 4
            THEN LeByte(Len(occupied), k - 1)
            ELSE LET sub == occupied[((k - 5) \div 20) + 1][1]
                     o == (k - 5) % 20
                 IN  IF o < 4 THEN LeByte(sub.channel_id, o)
                     ELSE IF o < 12 THEN LeByte(sub.start_time, o - 4)
                     ELSE LeByte(sub.end_time, o - 12)]

\* the bytes written after entry i of a log up to the next header
RECURSIVE BodyAfter(_, _)
BodyAfter(log, i) ==
    IF i + 1 > Len(log) \/ log[i + 1].t # "payload"
    THEN << >>
    ELSE log[i + 1].data \o BodyAfter(log, i + 1)

\* a List request with declared length 0 finishes
ListStep ==
    /\ pc = "cmd"
    /\ hdr.cmd = "L"
    /\ hdr.size = 0
    /\ pc' = "idle"

\* C26: for every table, the 'L' header of a List response declares
\* 4 + 20 * count bytes, count being the number of occupied slots, and once
\* the host has ACKed the header the body written is exactly that long: the
\* count, then channel_id, start_time and end_time of each occupied slot in
\* slot order, and no byte of a channel_key (no body byte when the host does
\* not ACK the header).  The request leaves the table, the page and curr_time
\* as they were.
C26_ListBodyIsCountAndTriples ==
    [][ListStep =>
          LET count == Cardinality({i \in 1..Len(subscriptions) : subscriptions[i] # None})
              at == {i \in 1..Len(out') : out'[i].t = "L"}
          IN  /\ Cardinality(at) = 1
              /\ \A i \in at :
                   /\ out'[i].len = 4 + 20 * count
                   /\ BodyAfter(out', i) = IF AckRead(req'.acks)
                                           THEN ListBody(subscriptions)
                                           ELSE << >>
                   /\ AckRead(req'.acks) => Len(BodyAfter(out', i)) = out'[i].len
              /\ subscriptions' = subscriptions
              /\ flash' = flash
              /\ curr_time' = curr_time]_vars

\* C26 witness: the list of a full table went out, 164 bytes declared, after a
\* frame had been decoded
C26_Witness ==
    /\ pc = "idle"
    /\ req.cmd = "L"
    /\ res = "Ok"
    /\ SubCount(subscriptions) = MAX_SUBSCRIPTION_COUNT
    /\ curr_time # None
    /\ \E i \in 1..Len(out) : out[i] = Header("L", 164) /\ Len(BodyAfter(out, i)) = 164

----------------------------------------------------------------------------
(* SpecLength: the declared length of a Decode request.  A run starts where a
   freshly booted device has read and ACKed a Decode header with one of the
   65536 lengths, and serves that request; the length subtraction wraps or,
   in a build with overflow checks, panics. *)

\* `frame_length + 8` in u16, wrapping
PayloadLength(packet_length) == (FrameLength(packet_length) + 8) % U16_MOD

\* the bytes DecoderConsole::decode_frame reads once the length is accepted:
\* channel_id, nonce, tag, signature and payload_length bytes of payload
BodyBytesRead(packet_length) ==
    4 + XCHACHA20_NONCE_BYTES + XCHACHA20_TAG_BYTES + ED25519_SIGNATURE_BYTES
      + PayloadLength(packet_length)

InitLength ==
    /\ pc = "cmd"
    /\ hdr \in {Head_("D", 68, l) : l \in 0..(U16_MOD - 1)}
    /\ out = <<Ack>>
    /\ subscriptions = DefaultSubscriptions
    /\ curr_time = None
    /\ buf = << >>
    /\ flash = reset_storage(ErasedPage)
    /\ req = NoRequest
    /\ res = ""
    /\ max_decoded = None
    /\ fls = NoFlush
    /\ acked = None
    /\ reflushed = FALSE
    /\ stored = DefaultSubscriptions
    /\ ticks = 0
    /\ hdr_tick = 0
    /\ took = 0
    /\ pw = NoTransfer
    /\ clk = NoClock
    /\ trng = << >>
    /\ link = NoLink

LengthPackets ==
    {Packet(CHANNEL_0_KEY, c, TRUE, 0, 1, << >>, None) : c \in BOOLEAN}

NextLength ==
    \/ DecodeCmd(LengthPackets, {<< >>})
    \/ DecodePanic

SpecLength == InitLength /\ [][NextLength]_vars

\* C27: for every declared length L of a Decode request, 0 to 65535, the
\* handler either fails with FrameTooLarge having read no body byte (no ACK
\* of a payload reader is written), or reads exactly L body bytes of which
\* the encrypted payload has 8 to 72 bytes; a length below 116 never leads to
\* a body read.
C27_DecodeLengthRejectedOrRead ==
    [][(pc = "cmd" /\ hdr.cmd = "D") =>
          /\ pc' = "idle"
          /\ \/ /\ res' = "FrameTooLarge"
                /\ req'.pkt = NoPacket
                /\ AckCount(out') = 2
             \/ /\ res' # "FrameTooLarge"
                /\ hdr.size >= 4 + 8 + ENCODER_CRYPTO_HEADER_LEN
                /\ BodyBytesRead(hdr.size) = hdr.size
                /\ PayloadLength(hdr.size) \in 8..72
                /\ Len(req'.pkt.frame) + 8 = PayloadLength(hdr.size)
                /\ AckCount(out') = 2 + Len(ReaderAcks(BodyBytesRead(hdr.size)))]_vars

----------------------------------------------------------------------------
(* SpecAck: the host's answers to the device's ACK waits.  Every request is
   served against a sequence of up to MaxAcks answers, so that a non-ACK
   packet can arrive at the first wait of a response, at a later one, and at
   a wait of the E response that reports an error.  A Decode request whose
   length subtraction overflows is served or, in a build with overflow
   checks, halts the device. *)

MaxAcks == 3

AckSeqs == UNION {[1..k -> BOOLEAN] : k \in 0..MaxAcks}

AckHeaders ==
    {Head_("L", 76, 0), Head_("L", 76, 1),
     Head_("S", 83, SUBSCRIPTION_MESSAGE_SIZE), Head_("S", 83, SUBSCRIPTION_MESSAGE_SIZE - 1),
     Head_("D", 68, 118), Head_("D", 68, 181), Head_("D", 68, 100),
     Head_("X", 88, 0)}

AckDecodePackets ==
    {Packet(CHANNEL_0_KEY, c, TRUE, 0, ts, << >>, None) : c \in BOOLEAN, ts \in {1, 2}}

AckSubscribePackets ==
    {Packet(DECODER_KEY, c, TRUE, 0, 0, << >>, Some(Subscription(1, 1, 2, KeyBytes(1)))) :
        c \in BOOLEAN}

NextAck ==
    \/ Boot
    \/ PowerCycle
    \/ ReadCommandHeader(AckHeaders)
    \/ InvalidCmd(AckSeqs)
    \/ ListCmd(AckSeqs)
    \/ DecodeCmd(AckDecodePackets, AckSeqs)
    \/ DecodePanic
    \/ SubscribeCmd(AckSubscribePackets, {1}, AckSeqs)

SpecAck == Init /\ [][NextAck]_vars

LastOf(S) == CHOOSE x \in S : \A y \in S : y <= x

\* the packet an entry of the log belongs to: the type of the last header
\* written up to entry i
PacketOf(log, i) ==
    LET hs == {j \in 1..i : log[j].t \notin {"payload", "A"}}
    IN  IF hs = {} THEN "" ELSE log[LastOf(hs)].t

\* the entries after which the device read an ACK: every L, S, D and E header
\* (read_ack after write_header) and the last run of bytes of an L, D or E
\* payload (finish_payload); the payloads here are below 256 bytes
WaitPoints(log) ==
    {i \in 1..Len(log) :
        \/ log[i].t \in {"L", "S", "D", "E"}
        \/ /\ log[i].t = "payload"
           /\ PacketOf(log, i) # "G"
           /\ (i = Len(log) \/ log[i + 1].t # "payload")}

\* the host's first answer that is not an ACK (0: none)
NackAt(acks) ==
    IF \A i \in 1..Len(acks) : acks[i]
    THEN 0
    ELSE MinOf({i \in 1..Len(acks) : ~acks[i]})

\* the entry written before the k-th wait
WaitEntry(log, k) ==
    CHOOSE i \in WaitPoints(log) : Cardinality({j \in WaitPoints(log) : j <= i}) = k

\* the device read the host's first non-ACK answer
Nacked(log, acks) == NackAt(acks) # 0 /\ NackAt(acks) <= Cardinality(WaitPoints(log))

AfterNack(log, acks) == SubSeq(log, WaitEntry(log, NackAt(acks)) + 1, Len(log))

\* C28 (as stated): whenever the device waits for an ACK and the host answers
\* '%' and a byte other than 'A', the request fails with
\* ExpectedAckButGotOther, no further byte of the response payload is written
\* and an E response reports the error.
C28_NackFailsAndIsReported ==
    [][(RequestStep /\ Nacked(out', req'.acks)) =>
          LET rest == AfterNack(out', req'.acks)
          IN  /\ res' = "ExpectedAckButGotOther"
              /\ \A j \in 1..Len(rest) :
                    rest[j].t = "payload" => PacketOf(rest, j) \in {"G", "E"}
              /\ \E j \in 1..Len(rest) :
                    rest[j] = Header("E", MESSAGE_LEN["ExpectedAckButGotOther"])]_vars

\* C28 (amended): a non-ACK answer at a wait of an L, S or D response fails
\* the request with ExpectedAckButGotOther: what the device writes after it
\* is the debug message, the E header of the 36-byte message and at most that
\* message.  A non-ACK answer at a wait of an E response ends the request
\* with nothing more written and the request's outcome is the error that E
\* response was reporting.
C28_NackedResponseFailsAndIsReported ==
    [][(RequestStep /\ Nacked(out', req'.acks)) =>
          LET i == WaitEntry(out', NackAt(req'.acks))
              rest == AfterNack(out', req'.acks)
              len == MESSAGE_LEN["ExpectedAckButGotOther"]
          IN  IF PacketOf(out', i) \in {"L", "S", "D"}
              THEN /\ res' = "ExpectedAckButGotOther"
                   /\ PacketOf(out', i) = hdr.cmd
                   /\ Len(rest) \in {3, 4}
                   /\ rest[1] = Header("G", len)
                   /\ rest[2].t = "payload" /\ rest[2].len = len
                   /\ rest[3] = Header("E", len)
                   /\ Len(rest) = 4 => (rest[4].t = "payload" /\ rest[4].len = len)
                   /\ Len(rest) = 4 <=>
                        (Len(req'.acks) <= NackAt(req'.acks) \/ req'.acks[NackAt(req'.acks) + 1])
              ELSE /\ PacketOf(out', i) = "E"
                   /\ rest = << >>
                   /\ res' \notin {"Ok", "ExpectedAckButGotOther"}
                   /\ HeaderCount(out', "E") = 1
                   /\ \A t \in {"L", "S", "D"} : HeaderCount(out', t) = 0]_vars

\* C28 witness: the host ACKed a D header and answered the frame's last byte
\* with a non-ACK packet; the request failed and an E header follows
C28_Witness ==
    /\ pc = "idle"
    /\ req.cmd = "D"
    /\ req.acks = <<TRUE, FALSE>>
    /\ res = "ExpectedAckButGotOther"
    /\ HeaderCount(out, "D") = 1
    /\ HeaderCount(out, "E") = 1
    /\ out[WaitEntry(out, 2)].t = "payload"

----------------------------------------------------------------------------
(* SpecNonce: SpecPower with the TRNG's outputs recorded.  Each call of
   trng.fill_bytes in encrypt_flash_buffer delivers the next output, and the
   outputs are pairwise distinct; trng holds those delivered so far and, like
   the page, outlasts a power cycle. *)

\* the flushes of a run
MaxDraws == 3

\* encrypt_flash_buffer: trng.fill_bytes(&mut nonce), then the encryption
FlushEncryptFresh ==
    /\ Len(trng) < MaxDraws
    /\ LET drawn == NonceBytes(Len(trng) + 1)
           e == encrypt_flash_buffer(buf, drawn)
       IN  /\ pc = "flush_encrypt"
           /\ pc' = "flush_header"
           /\ buf' = e.buf
           /\ fls' = [fls EXCEPT !.nonce = e.nonce, !.tag = e.tag]
           /\ trng' = Append(trng, drawn)
    /\ UNCHANGED <<subscriptions, curr_time, flash, hdr, out, req, res, max_decoded,
                   acked, reflushed, stored, ticks, hdr_tick, took, pw, clk,
                   link>>

NextNonce ==
    \/ Boot
    \/ PowerCycle
    \/ ReadCommandHeader(PowerHeaders)
    \/ SubscribeBegin(PowerPackets, {<< >>})
    \/ FlushErase
    \/ FlushEncryptFresh
    \/ FlushHeader
    \/ FlushNonce
    \/ FlushTag
    \/ FlushData
    \/ FlushFinal
    \/ FlushMagic
    \/ SubscribeRespond
    \/ PowerCut

SpecNonce == Init /\ [][NextNonce]_vars

\* the TRNG's outputs are pairwise distinct
DistinctDraws == \A i, j \in 1..Len(trng) : i # j => trng[i] # trng[j]

\* the nonce of the image in the page is an output the TRNG delivered (the
\* page reset_storage leaves holds no image: its length is zero)
StoredNonceWasDrawn ==
    (MagicPresent(flash) /\ flash # reset_storage(ErasedPage)) =>
        \E i \in 1..Len(trng) : StoredNonce(flash) = trng[i]

\* C29: every flush_buffer call erases the whole page and then writes a
\* complete image encrypted under a 24-byte nonce the TRNG delivered during
\* that call: the nonce is the newest output, which differs from every
\* earlier output, among them the nonce of the image the page held before and
\* the nonces of all earlier flushes; and a running device changes a page
\* that holds an image only by erasing all of it.
C29_FlushErasesAndDrawsFreshNonce ==
    [][/\ DistinctDraws /\ StoredNonceWasDrawn
       /\ (pc = "flush_erase" /\ pc' = "flush_encrypt") => flash' = ErasedPage
       /\ (pc = "flush_encrypt" /\ pc' = "flush_header") =>
             /\ flash = ErasedPage
             /\ Len(trng') = Len(trng) + 1
             /\ fls'.nonce = trng'[Len(trng')]
             /\ Len(fls'.nonce) = XCHACHA20_NONCE_BYTES
             /\ \A i \in 1..Len(trng) : trng[i] # fls'.nonce
       /\ (pc \in FlushPcs /\ pc' \notin {"off", "flush_header"}) => trng' = trng
       /\ (pc = "flush_magic" /\ pc' = "respond") =>
             /\ StoredNonce(flash') = trng[Len(trng)]
             /\ flash' = flush_buffer(to_extend(subscriptions), trng[Len(trng)])
             /\ RebootTable(flash') = subscriptions
       /\ (flash' # flash /\ pc' # "off" /\ MagicPresent(flash)) =>
             (pc = "flush_erase" /\ flash' = ErasedPage)]_vars

\* C29 witness: a second flush has completed; the page holds its image under
\* the second output of the TRNG, which is not the first
C29_Witness ==
    /\ pc = "respond"
    /\ Len(trng) = 2
    /\ StoredNonce(flash) = trng[2]
    /\ trng[1] # trng[2]
    /\ MagicPresent(flash)

----------------------------------------------------------------------------
(* The response headers of a request *)

\* a request has been served and the device waits for the next header
Served == pc = "idle" /\ req.cmd # ""

\* the device halted in a Decode request (the length subtraction panicked)
HaltedInDecode == pc = "halted" /\ hdr.cmd = "D"

\* the success headers of the request's own command in the log
OwnHeaders(log, cmd) == IF cmd \in {"L", "S", "D"} THEN HeaderCount(log, cmd) ELSE 0

\* the L, S, D and E headers in the log
ResponseHeaders(log) ==
    HeaderCount(log, "L") + HeaderCount(log, "S") + HeaderCount(log, "D")
      + HeaderCount(log, "E")

FirstHeader(log, t) == MinOf({i \in 1..Len(log) : log[i].t = t})

\* C30 (as stated): for every request the device writes exactly one response
\* header, the success header of the request's own command or an E header,
\* never both and never neither.
C30_ExactlyOneResponseHeader ==
    /\ Served => /\ ResponseHeaders(out) = 1
                 /\ OwnHeaders(out, req.cmd) + HeaderCount(out, "E") = 1
    /\ HaltedInDecode => ResponseHeaders(out) = 1

\* C30 (amended): a served request has at most one success header, that of
\* its own command, and at most one E header, and at least one of the two.
\* It has the success header alone exactly when it succeeded, and both, the
\* success header first, exactly when it failed with ExpectedAckButGotOther
\* (the host answered a wait of the success response with a non-ACK packet).
\* A Decode request that halted the device has no response header.
C30_SuccessHeaderThenAtMostOneError ==
    /\ Served =>
         LET own == OwnHeaders(out, req.cmd)
             e == HeaderCount(out, "E")
         IN  /\ own <= 1 /\ e <= 1 /\ own + e >= 1
             /\ ResponseHeaders(out) = own + e
             /\ (own = 1 /\ e = 0) <=> res = "Ok"
             /\ (own = 1 /\ e = 1) <=> res = "ExpectedAckButGotOther"
             /\ (own = 1 /\ e = 1) => FirstHeader(out, req.cmd) < FirstHeader(out, "E")
             /\ (own = 1 /\ e = 1) => Nacked(out, req.acks)
    /\ HaltedInDecode => (ResponseHeaders(out) = 0 /\ FrameLengthOverflows(hdr.size))

\* C30 witness: the host answered the header of a List response with a
\* non-ACK packet; the log of the request holds the L header and an E header
C30_Witness ==
    /\ Served
    /\ req.cmd = "L"
    /\ req.acks # << >> /\ ~req.acks[1]
    /\ res = "ExpectedAckButGotOther"
    /\ HeaderCount(out, "L") = 1
    /\ HeaderCount(out, "E") = 1

----------------------------------------------------------------------------
(* SpecSubscribeError: one Subscribe request, served in one step, with every
   way it fails: a tampered packet, no free slot, a non-ACK answer to the 'S'
   header, and a flash controller that refuses one of the writes of
   flush_buffer.  A run starts where the device, having stored subscriptions
   for the channels 1..n (n from 0 to a full table), has read and ACKed the
   header of the request. *)

\* the pages after the block writes of the data loop, in order
RECURSIVE DataLoopPages(_, _)
DataLoopPages(bf, st) ==
    IF st.chunk >= ChunkCount(bf)
    THEN << >>
    ELSE LET n == DataLoopStep(bf, st)
         IN  (IF st.i + 1 = 4 THEN <<n.fl>> ELSE << >>) \o DataLoopPages(bf, n)

\* the page before each write of flush_buffer, from the erased page before the
\* header block to the page before the magic word; e is the encrypted buffer
FlushWrites(e) ==
    LET f1 == write_128(ErasedPage, PERSIST_BASE_ADDR, HeaderBlock(Len(e.buf), e.nonce))
        f2 == write_128(f1, PERSIST_BASE_ADDR + 16, NonceBlock(e.nonce))
        f3 == write_128(f2, PERSIST_BASE_ADDR + 32, TagBlock(e.tag))
    IN  <<ErasedPage, f1, f2, f3>> \o DataLoopPages(e.buf, DataLoopStart(f3))
          \o <<FinalWrite(e.buf, DataLoop(e.buf, DataLoopStart(f3)))>>

\* flush_buffer without erase_page, its k-th write refused
flush_buffer_failing_unerased(fl, e, k) == fl

\* flush_buffer on page fl, its k-th write refused: erase_page, the writes
\* before the k-th, then FlashError through `?`
flush_buffer_failing(fl, e, k) == FlushWrites(e)[k]

\* the writes the controller may refuse: the header block, the tag block,
\* the first write of the data (or the one after the loop), the magic word
RefusedWrites(e) == {1, 3, 4, Len(FlushWrites(e))}

\* a Subscribe request whose subscription is registered and whose
\* flush_buffer fails: SavingFailed goes to the loop of main
SubscribeCmdFlashError(Packets, Nonces, AckSets) ==
    /\ pc = "cmd"
    /\ hdr.cmd = "S"
    /\ \E p \in Packets, n \in Nonces, acks \in AckSets :
         LET h == SubscribeHead(subscriptions, curr_time, buf, flash, hdr.size, p,
                                acks, out)
             e == encrypt_flash_buffer(h.eff.buf, NonceBytes(n))
         IN  /\ ~h.done
             /\ \E k \in RefusedWrites(e) :
                  Finish(Effect(h.eff.subscriptions, curr_time, e.buf,
                                flush_buffer_failing(flash, e, k),
                                Report("SavingFailed", acks, h.eff.out), "SavingFailed"),
                         Request(p, acks))
    /\ reflushed' = TRUE
    /\ stored' = DefaultSubscriptions
    /\ UNCHANGED <<max_decoded, acked>>

SubscribeErrorPackets(t) ==
    TablePackets(t)
      \cup {Packet(DECODER_KEY, FALSE, TRUE, 0, 0, << >>,
                   Some(Subscription(1, 1, 2, KeyBytes(1))))}

\* the table after Subscribe requests for the channels 1..n, in this order
FilledTable(n) ==
    [i \in 1..MAX_SUBSCRIPTION_COUNT |->
        IF i <= n
        THEN LET w == IF i <= MaxChannel THEN <<1, 2>>
                      ELSE CHOOSE x \in TableWindows(i) : TRUE
             IN  Some(Subscription(i, w[1], w[2], KeyBytes(i)))
        ELSE None]

InitSubscribeError ==
    /\ pc = "cmd"
    /\ hdr = Head_("S", 83, SUBSCRIPTION_MESSAGE_SIZE)
    /\ out = <<Ack>>
    /\ \E n \in 0..MAX_SUBSCRIPTION_COUNT :
         /\ subscriptions = FilledTable(n)
         /\ stored = FilledTable(n)
         /\ flash = IF n = 0 THEN reset_storage(ErasedPage)
                    ELSE flush_buffer(to_extend(FilledTable(n)), NonceBytes(1))
         /\ acked = IF n = 0 THEN None ELSE FilledTable(n)[n]
    /\ curr_time = None
    /\ buf = << >>
    /\ req = NoRequest
    /\ res = ""
    /\ max_decoded = None
    /\ fls = NoFlush
    /\ reflushed = FALSE
    /\ ticks = 0
    /\ hdr_tick = 0
    /\ took = 0
    /\ pw = NoTransfer
    /\ clk = NoClock
    /\ trng = << >>
    /\ link = NoLink

NextSubscribeError ==
    \/ SubscribeCmd(SubscribeErrorPackets(subscriptions), {1}, AckAnswers)
    \/ SubscribeCmdFlashError(TablePackets(subscriptions), {1}, {<< >>})

SpecSubscribeError == InitSubscribeError /\ [][NextSubscribeError]_vars

\* a Subscribe request of the right length ends with an E response
SubscribeFails ==
    /\ pc = "cmd"
    /\ hdr.cmd = "S"
    /\ hdr.size = SUBSCRIPTION_MESSAGE_SIZE
    /\ pc' = "idle"
    /\ HasHeader(out', "E")

\* C31 (as stated): if a Subscribe request ends with an E response, the table
\* in RAM and the table a reboot would load from the page are the same as
\* before the request.
C31_FailedSubscribeChangesNothing ==
    [][SubscribeFails =>
          /\ subscriptions' = subscriptions
          /\ RebootTable(flash') = RebootTable(flash)]_vars

\* C31 (amended): a Subscribe request that ends with FailedDecryption or
\* NoMoreSubscriptionSpace leaves the table in RAM and the page as they were.
\* One that ends with ExpectedAckButGotOther has written the 'S' header: the
\* table in RAM holds the new subscription, its other entries as before, and
\* a reboot loads that table.  One that ends with SavingFailed has written no
\* 'S' header: the table in RAM holds the new subscription, its other entries
\* as before, and a reboot loads the empty table.  No request ends with
\* SerializationFailed.
C31_FailedSubscribeByError ==
    [][SubscribeFails =>
          LET sub == req'.pkt.sub[1]
              changed == /\ Contains(subscriptions', sub)
                         /\ OtherEntries(subscriptions', sub.channel_id)
                              = OtherEntries(subscriptions, sub.channel_id)
          IN  /\ res' \in {"FailedDecryption", "NoMoreSubscriptionSpace",
                           "ExpectedAckButGotOther", "SavingFailed"}
              /\ res' \in {"FailedDecryption", "NoMoreSubscriptionSpace"} =>
                    /\ subscriptions' = subscriptions
                    /\ flash' = flash
                    /\ ~HasHeader(out', "S")
              /\ res' = "NoMoreSubscriptionSpace" =>
                    SubCount(subscriptions) = MAX_SUBSCRIPTION_COUNT
              /\ res' = "ExpectedAckButGotOther" =>
                    /\ HasHeader(out', "S")
                    /\ changed
                    /\ RebootTable(flash') = subscriptions'
              /\ res' = "SavingFailed" =>
                    /\ ~HasHeader(out', "S")
                    /\ changed
                    /\ ~MagicPresent(flash')
                    /\ RebootTable(flash') = DefaultSubscriptions]_vars

\* C31 witness: the table held a subscription, a second channel's request
\* ended with SavingFailed: both are in RAM, the page boots to the empty table
C31_Witness ==
    /\ pc = "idle"
    /\ req.cmd = "S"
    /\ res = "SavingFailed"
    /\ HasHeader(out, "E")
    /\ SubCount(subscriptions) = 2
    /\ Contains(subscriptions, req.pkt.sub[1])
    /\ RebootTable(flash) = DefaultSubscriptions

----------------------------------------------------------------------------
(* SpecBoot: SpecTamper with pages whose stored length is out of range.  While
   the device is off, the length word of a page with the magic word is set to
   STORAGE_MAX + 1 or to the erased value. *)

\* 1025 and 0xFFFFFFFF as words
OverLengths == {<<1, 4, 0, 0>>, ERASED_WORD}

TamperLength ==
    /\ pc = "off"
    /\ MagicPresent(flash)
    /\ \E w \in OverLengths :
         flash' = write_128(flash, PERSIST_BASE_ADDR,
                            [read_128(flash, PERSIST_BASE_ADDR) EXCEPT ![2] = w])
    /\ UNCHANGED <<pc, subscriptions, curr_time, buf, hdr, out, req, res, max_decoded,
                   fls, acked, reflushed, stored, ticks, hdr_tick, took, pw, clk, trng, link>>

NextBoot ==
    \/ Boot
    \/ PowerCycle
    \/ Tamper
    \/ TamperLength
    \/ ReadCommandHeader(TamperHeaders)
    \/ ListCmd({<< >>})
    \/ SubscribeCmd(PowerPackets, {1}, {<< >>})

SpecBoot == Init /\ [][NextBoot]_vars

\* power comes on and main runs up to its loop, or stops before it
PowerOn == pc = "off" /\ pc' # "off"

\* C32: whatever the page holds at power-on, also a magic word with a stored
\* length above STORAGE_MAX, DecoderStorage::init and Decoder::new complete
\* and the device reaches the main loop, with the table of the last completed
\* flush or the empty table.
C32_EveryPageBootsToMainLoop ==
    [][PowerOn =>
          /\ pc' = "idle"
          /\ subscriptions' \in {stored, DefaultSubscriptions}]_vars

----------------------------------------------------------------------------
(* The storage buffer between requests *)

\* C33: whenever the device waits for a request header, the buffer of
\* DecoderStorage is empty: the decrypted image, which holds the channel
\* keys, does not stay in it after boot or after a request.
C33_IdleBufferEmpty == pc = "idle" => buf = << >>

----------------------------------------------------------------------------
(* The dialogue with a host

   SpecDialogue puts a host at the other end of the UART.  link.to_dev and
   link.to_host hold the packets in flight; the device writes the log of its
   handler entry by entry and stops at every read (read_ack, the body in
   DecoderPayloadReader), the host sends well-formed requests and answers as
   the protocol has it: an ACK for every L, S, D and E header and one at the
   end of every response; no response here reaches 256 bytes.  Whether the
   host counts an end for a response of no bytes is link.host.zero_ack, fixed
   when the host connects.  A packet is handed over whole: read_until_magic
   drops bytes up to a '%', so an ACK where a header is read is the command
   byte 'A', a header where read_ack reads is not an ACK, and bodies here
   hold no '%'. *)

MaxRequests == 3

HostHeader(h, p) == [t |-> "hdr", h |-> h, p |-> p]
HostAck == [t |-> "ack"]
HostBody == [t |-> "body"]

\* the requests of the host: List, Subscribe, Decode with a frame of 0 and of
\* 2 bytes
DialogueRequests ==
    {HostHeader(Head_("L", 76, 0), NoPacket)}
      \cup {HostHeader(Head_("S", 83, SUBSCRIPTION_MESSAGE_SIZE), p) :
              p \in AckSubscribePackets}
      \cup {HostHeader(Head_("D", 68, size),
                       [p EXCEPT !.frame = FrameBytes(FrameLength(size))]) :
              size \in {116, 118}, p \in {q \in AckDecodePackets : q.timestamp = 1}}

\* the handler reads a body after its write_ack
BodyExpected(h) ==
    \/ h.cmd = "S" /\ h.size = SUBSCRIPTION_MESSAGE_SIZE
    \/ h.cmd = "D" /\ ~FrameLengthOverflows(h.size) /\ FrameLength(h.size) <= 64

Connected == link # NoLink

\* run_command on the request in progress with the answers a of the host
DialogueServe(a) ==
    CASE hdr.cmd = "L" ->
           ListCommand(subscriptions, curr_time, buf, flash, hdr.size, a, out)
      [] hdr.cmd = "S" ->
           SubscribeCommand(subscriptions, curr_time, buf, flash, hdr.size, link.pkt,
                            NonceBytes(1), a, out)
      [] hdr.cmd = "D" ->
           DecodeCommand(subscriptions, curr_time, buf, flash, hdr.size, link.pkt, a, out)
      [] OTHER ->
           InvalidCommand(subscriptions, curr_time, buf, flash, hdr.byte, a, out)

\* what the device writes for the request, given the answers read so far
Script == DialogueServe(link.acks).out

WaitsUpTo(log, w) == Cardinality({i \in WaitPoints(log) : i <= w})

\* a 'D' header for no bytes was ACKed: DecoderPayloadWriter writes nothing
\* and finish_payload reads one more ACK
EmptyPayloadWait(log, a, w) ==
    \E i \in 1..w :
        /\ log[i].t = "D"
        /\ log[i].len = 0
        /\ Len(a) >= WaitsUpTo(log, i)
        /\ a[WaitsUpTo(log, i)]

\* the reads of an ACK the device has come to after w entries
AcksDue(log, a, w) ==
    WaitsUpTo(log, w) + (IF EmptyPayloadWait(log, a, w) THEN 1 ELSE 0)

NeedAck == Len(link.acks) < AcksDue(Script, link.acks, link.written)
NeedBody == BodyExpected(hdr) /\ link.written = 2 /\ ~link.body_read

\* the host tool opens the port
HostConnect ==
    /\ pc = "idle"
    /\ ~Connected
    /\ \E z \in BOOLEAN :
         link' = [to_dev |-> << >>, to_host |-> << >>, pkt |-> NoPacket, acks |-> << >>,
                  written |-> 0, body_read |-> FALSE, magic_of |-> "hdr",
                  host |-> [at |-> "ready", body |-> << >>, rx |-> "", left |-> 0,
                            sent |-> 0, zero_ack |-> z]]
    /\ UNCHANGED <<pc, subscriptions, curr_time, buf, flash, hdr, out, req, res,
                   max_decoded, fls, acked, reflushed, stored, ticks, hdr_tick, took,
                   pw, clk, trng>>

LinkOnly ==
    UNCHANGED <<pc, subscriptions, curr_time, buf, flash, hdr, out, req, res,
                max_decoded, fls, acked, reflushed, stored, ticks, hdr_tick, took,
                pw, clk, trng>>

\* the host sends a request header and waits for its ACK
HostSend ==
    /\ Connected
    /\ link.host.at = "ready"
    /\ link.host.sent < MaxRequests
    /\ \E x \in DialogueRequests :
         link' = [link EXCEPT !.to_dev = Append(@, x),
                              !.host.at = "await_ack",
                              !.host.body = IF BodyExpected(x.h) THEN <<HostBody>>
                                                                     ELSE << >>,
                              !.host.sent = @ + 1]
    /\ LinkOnly

\* the bytes of a packet on the wire
WireLen(x) == IF x.t = "payload" THEN x.len ELSE 4

\* the host reads what the device wrote; ack is what it puts on the wire for
\* an ACK
HostReadAs(ack) ==
    /\ Connected
    /\ link.host.at # "ready"
    /\ link.to_host # << >>
    /\ LET x == Head(link.to_host)
           h == link.host
           rest == [link EXCEPT !.to_host = Tail(@)]
       IN  link' =
             IF h.rx # ""
             THEN \* inside a payload: the next bytes belong to it
                  IF WireLen(x) < h.left
                  THEN [rest EXCEPT !.host.left = @ - WireLen(x)]
                  ELSE IF h.rx = "G"
                       THEN [rest EXCEPT !.host.left = 0, !.host.rx = ""]
                       ELSE [rest EXCEPT !.host.left = 0, !.host.rx = "",
                                         !.host.at = "ready",
                                         !.to_dev = @ \o ack]
             ELSE IF x.t = "A"
             THEN IF h.at = "await_ack"
                  THEN IF h.body # << >>
                       THEN [rest EXCEPT !.host.at = "await_body_ack",
                                         !.to_dev = @ \o h.body]
                       ELSE [rest EXCEPT !.host.at = "await_response"]
                  ELSE IF h.at = "await_body_ack"
                       THEN [rest EXCEPT !.host.at = "await_response"]
                       ELSE rest
             ELSE IF x.t = "G"
             THEN [rest EXCEPT !.host.rx = "G", !.host.left = x.len]
             ELSE IF x.t = "payload"
             THEN rest
             ELSE \* an L, S, D or E header
                  IF x.len > 0
                  THEN [rest EXCEPT !.host.rx = x.t, !.host.left = x.len,
                                    !.to_dev = @ \o ack]
                  ELSE [rest EXCEPT !.host.at = "ready",
                                    !.to_dev = IF h.zero_ack
                                               THEN @ \o ack \o ack
                                               ELSE @ \o ack]
    /\ LinkOnly

HostRead == HostReadAs(<<HostAck>>)

\* read_command_header on the wire
DeviceReadHeader ==
    /\ pc = "idle"
    /\ Connected
    /\ link.to_dev # << >>
    /\ LET x == Head(link.to_dev)
           h == IF x.t = "hdr" THEN x.h ELSE Head_("A", 65, 0)
           known == h.cmd \in {"L", "S", "D"}
       IN  IF x.t = "body"
           THEN /\ link' = [link EXCEPT !.to_dev = Tail(@)]
                /\ UNCHANGED <<pc, hdr, out, req, res, hdr_tick, took>>
           ELSE /\ pc' = "cmd"
                /\ hdr' = h
                /\ out' = IF known THEN <<Ack>> ELSE << >>
                /\ req' = NoRequest
                /\ res' = ""
                /\ hdr_tick' = ticks
                /\ took' = 0
                /\ link' = [link EXCEPT !.to_dev = Tail(@),
                                        !.to_host = IF known THEN Append(@, Ack) ELSE @,
                                        !.pkt = IF x.t = "hdr" THEN x.p ELSE NoPacket,
                                        !.acks = << >>,
                                        !.written = IF known THEN 1 ELSE 0,
                                        !.body_read = FALSE,
                                        !.magic_of = x.t]
    /\ UNCHANGED <<subscriptions, curr_time, buf, flash, max_decoded, fls, acked,
                   reflushed, stored, ticks, pw, clk, trng>>

\* the handler writes its next packet
DeviceWrite ==
    /\ pc = "cmd"
    /\ Connected
    /\ ~NeedAck
    /\ ~NeedBody
    /\ link.written < Len(Script)
    /\ link' = [link EXCEPT !.written = @ + 1,
                            !.to_host = Append(@, Script[link.written + 1])]
    /\ LinkOnly

\* read_ack: read_until_magic, then the byte must be 'A'
DeviceReadAck ==
    /\ pc = "cmd"
    /\ Connected
    /\ NeedAck
    /\ link.to_dev # << >>
    /\ LET x == Head(link.to_dev)
       IN  link' = IF x.t = "body"
                   THEN [link EXCEPT !.to_dev = Tail(@)]
                   ELSE [link EXCEPT !.to_dev = Tail(@),
                                     !.acks = Append(@, x.t = "ack")]
    /\ LinkOnly

\* DecoderPayloadReader reads the body; bytes of another packet in its place
\* leave the body garbled and short
DeviceReadBody ==
    /\ pc = "cmd"
    /\ Connected
    /\ ~NeedAck
    /\ NeedBody
    /\ link.to_dev # << >>
    /\ LET x == Head(link.to_dev)
       IN  link' = IF x.t = "body"
                   THEN [link EXCEPT !.to_dev = Tail(@), !.body_read = TRUE]
                   ELSE [link EXCEPT !.to_dev = Tail(@), !.pkt.intact = FALSE]
    /\ LinkOnly

\* run_command returns and main goes round its loop
DeviceDone ==
    /\ Connected
    /\ pc = "cmd"
    /\ ~NeedAck
    /\ ~NeedBody
    /\ link.written = Len(Script)
    /\ \/ InvalidCmd({link.acks})
       \/ ListCmd({link.acks})
       \/ DecodeCmd({link.pkt}, {link.acks})
       \/ SubscribeCmd({link.pkt}, {1}, {link.acks})

DeviceStep ==
    \/ DeviceReadHeader
    \/ DeviceWrite
    \/ DeviceReadAck
    \/ DeviceReadBody
    \/ DeviceDone

NextDialogue ==
    \/ Boot
    \/ HostConnect
    \/ HostSend
    \/ HostRead
    \/ DeviceReadHeader
    \/ DeviceWrite
    \/ DeviceReadAck
    \/ DeviceReadBody
    \/ DeviceDone

\* ENABLED <<DeviceStep>>_vars: the device is not in a read with nothing on
\* its way to it
DeviceCanStep ==
    /\ Connected
    /\ \/ pc = "idle" /\ link.to_dev # << >>
       \/ pc = "cmd" /\ ((NeedAck \/ NeedBody) => link.to_dev # << >>)

\* the loop of main never pauses and the host reads whatever arrives: weak
\* fairness of DeviceStep, written out over DeviceCanStep, and of HostRead;
\* the host need not send another request
SpecDialogue ==
    /\ Init /\ [][NextDialogue]_vars
    /\ WF_vars(HostRead)
    /\ ([]<>(~DeviceCanStep) \/ []<><<DeviceStep>>_vars)

\* the device is in a read and nothing is on its way to it
DeviceBlocked ==
    /\ Connected
    /\ link.to_dev = << >>
    /\ \/ pc = "idle"
       \/ pc = "cmd" /\ (NeedAck \/ NeedBody)

\* the host waits for the device and nothing is on its way to it
HostBlocked ==
    /\ Connected
    /\ link.host.at # "ready"
    /\ link.to_host = << >>

BothBlocked == DeviceBlocked /\ HostBlocked

HostWaits == Connected /\ link.host.at # "ready"
Settled == Connected /\ link.host.at = "ready" /\ pc = "idle"

\* C34: with a host that sends well-formed headers and ACKs every header of
\* the device and the end of every response, the two sides are never both
\* blocked in a read, and every request the host has sent leads to the host
\* holding a response and the device back in read_command_header.
C34_DialogueNeverBlocks == [](~BothBlocked) /\ (HostWaits ~> Settled)

----------------------------------------------------------------------------
(* Bytes the device never asked for

   SpecStray has the wire to the device byte by byte, each byte with the part
   of the host's traffic it belongs to: "hdr" ('%' and the command byte),
   "length", "body" or "ack".  The host sends requests the device rejects
   before it reads a body: Subscribe with a wrong length, Decode with a frame
   of 65 bytes, and a command byte that is no command.  read_command_header
   has ACKed the header of the first two before run_command looks at the
   length, so the host sends the body. *)

MaxStrayRequests == 1

WireByte(b, of) == [b |-> b, of |-> of]

AckBytes ==
    <<WireByte(37, "ack"), WireByte(65, "ack"), WireByte(0, "ack"), WireByte(0, "ack")>>

HeaderBytes(h) ==
    <<WireByte(37, "hdr"), WireByte(h.byte, "hdr"), WireByte(h.size % 256, "length"),
      WireByte(h.size \div 256, "length")>>

\* '%', 'A', 'L' and 0
StrayValues == {37, 65, 76, 0}

\* a body of n bytes: four of any value, then zeros
BodyBytes(v, n) == [i \in 1..n |-> WireByte(IF i <= 4 THEN v[i] ELSE 0, "body")]

StrayRequests ==
    {[h |-> Head_("S", 83, 4), body |-> BodyBytes(v, 4)] : v \in [1..4 -> StrayValues]}
      \cup {[h |-> Head_("D", 68, 181), body |-> BodyBytes(v, 181)] :
              v \in [1..4 -> StrayValues]}
      \cup {[h |-> Head_("X", 88, l[1] + 256 * l[2]), body |-> << >>] :
              l \in [1..2 -> StrayValues]}

StrayHostSend ==
    /\ Connected
    /\ link.host.at = "ready"
    /\ link.host.sent < MaxStrayRequests
    /\ \E x \in StrayRequests :
         link' = [link EXCEPT !.to_dev = @ \o HeaderBytes(x.h),
                              !.host.at = "await_ack",
                              !.host.body = x.body,
                              !.host.sent = @ + 1]
    /\ LinkOnly

\* read_until_magic: the place of the first '%' on the wire (0: none)
FirstMagic(w) ==
    IF \E i \in 1..Len(w) : w[i].b = 37
    THEN MinOf({i \in 1..Len(w) : w[i].b = 37})
    ELSE 0

CommandOf(byte) ==
    CASE byte = 76 -> "L" [] byte = 83 -> "S" [] byte = 68 -> "D" [] OTHER -> "X"

\* read_command_header, byte by byte: bytes up to a '%' are dropped, the next
\* byte is the command, and a command that is one is followed by its length
StrayReadHeader ==
    /\ pc = "idle"
    /\ Connected
    /\ link.to_dev # << >>
    /\ LET w == link.to_dev
           i == FirstMagic(w)
       IN  IF i = 0
           THEN /\ link' = [link EXCEPT !.to_dev = << >>]
                /\ UNCHANGED <<pc, hdr, out, req, res, hdr_tick, took>>
           ELSE /\ Len(w) >= i + 1
                /\ LET cmd == w[i + 1].b
                       known == CommandOf(cmd) # "X"
                   IN  /\ known => Len(w) >= i + 3
                       /\ pc' = "cmd"
                       /\ hdr' = Head_(CommandOf(cmd), cmd,
                                       IF known THEN w[i + 2].b + 256 * w[i + 3].b ELSE 0)
                       /\ out' = IF known THEN <<Ack>> ELSE << >>
                       /\ req' = NoRequest
                       /\ res' = ""
                       /\ hdr_tick' = ticks
                       /\ took' = 0
                       /\ link' = [link EXCEPT
                                     !.to_dev = SubSeq(w, IF known THEN i + 4 ELSE i + 2,
                                                       Len(w)),
                                     !.to_host = IF known THEN Append(@, Ack) ELSE @,
                                     !.pkt = NoPacket,
                                     !.acks = << >>,
                                     !.written = IF known THEN 1 ELSE 0,
                                     !.body_read = FALSE,
                                     !.magic_of = w[i].of]
    /\ UNCHANGED <<subscriptions, curr_time, buf, flash, max_decoded, fls, acked,
                   reflushed, stored, ticks, pw, clk, trng>>

\* read_ack, byte by byte
StrayReadAck ==
    /\ pc = "cmd"
    /\ Connected
    /\ NeedAck
    /\ link.to_dev # << >>
    /\ LET w == link.to_dev
           i == FirstMagic(w)
       IN  IF i = 0
           THEN link' = [link EXCEPT !.to_dev = << >>]
           ELSE /\ Len(w) >= i + 1
                /\ link' = [link EXCEPT !.to_dev = SubSeq(w, i + 2, Len(w)),
                                        !.acks = Append(@, w[i + 1].b = 65)]
    /\ LinkOnly

NextStray ==
    \/ Boot
    \/ HostConnect
    \/ StrayHostSend
    \/ HostReadAs(AckBytes)
    \/ StrayReadHeader
    \/ StrayReadAck
    \/ DeviceWrite
    \/ DeviceDone

SpecStray == Init /\ [][NextStray]_vars

\* C35: the '%' that read_command_header takes for the start of a request is
\* never a byte of the body of a rejected request or of the length field of
\* an unrecognised command: such bytes start no request and run no handler.
C35_StrayBytesStartNoRequest ==
    Connected => link.magic_of \notin {"body", "length"}

====
